---- MODULE Spec2Model ----
(***************************************************************************)
(* Analytical core of the FAST conflict-forecast reports: the ordinal     *)
(* classifiers, the percentile computation, the cohort selection of       *)
(* DataExtractor.extract_template_data and the within-country ranking of  *)
(* GridBLUFDataExtractor._get_country_rank.                                *)
(*                                                                         *)
(* Numbers.  The source works on floats; the model uses scaled integers:  *)
(*   probabilities in thousandths (0.01 is 10, 0.5 is 500, 0.99 is 990),   *)
(*   intensities and predicted fatalities in hundredths (10 is 1000).      *)
(* A percentile is kept as the exact fraction num/den.                     *)
(***************************************************************************)
EXTENDS Integers, Sequences, FiniteSets, TLC

VARIABLES
    classified,     \* the last classifier call: function, argument, returned label
    month_data,     \* DataProvider.get_monthly_forecast_distribution(month, year)
    covariate_data, \* DataProvider.covariate_data, one covariate column
    extracted,      \* outcome of the last DataExtractor.extract_template_data call
    forecast_data,  \* GridDataProvider.get_baseline_forecast()
    country_map,    \* GridDataProvider._build_grid_country_map(): grid -> country
    ranked,         \* outcome of the last _get_country_rank / extract_bluf_data call
    gdf,            \* GridSpatialModule.gdf, the PRIO-GRID shapefile
    spatial,        \* outcome of the last GridSpatialModule call
    historical_data, \* one unit's monthly fatality counts, oldest month first
    trend,          \* outcome of the last trend computation
    heap,           \* the tables in memory: object identity -> table
    threads,        \* per thread: the operation under way and its local tables
    bulk            \* GridBLUFBulkGenerator: counters, futures, collected results

vars == <<classified, month_data, covariate_data, extracted,
          forecast_data, country_map, ranked, gdf, spatial,
          historical_data, trend, heap, threads, bulk>>

classifyVars == <<classified>>
extractVars  == <<month_data, covariate_data, extracted>>
rankVars     == <<forecast_data, country_map, ranked>>
spatialVars  == <<gdf, spatial>>
trendVars    == <<historical_data, trend>>
sharedVars   == <<heap, threads>>
bulkVars     == <<bulk>>

\* A value no operation has produced yet.
Idle == [fn |-> "none"]

Range(s) == {s[i] : i \in DOMAIN s}

\* The components a specification does not exercise stay as constructed.
IdleSpatial == gdf = <<>> /\ spatial = Idle
IdleTrend == historical_data = <<>> /\ trend = Idle
IdleShared == heap = <<>> /\ threads = <<>>
IdleBulk == bulk = Idle

(***************************************************************************)
(* CategoryClassifier                                                      *)
(***************************************************************************)

\* Distance, in model units, explored around the ends of [0,1] and around
\* every band edge.
Near == 15

\* float("inf") of config.BAND_BINS / PIE_BINS: above every input of the model.
Inf == 1000000000

\* Probabilities given to the classifiers, in thousandths.
Probabilities == (0 - Near)..(1000 + Near)

\* Variant of categorize_probability with every upper bound exclusive.
categorize_probability_strict(prob) ==
    IF prob < 10 THEN "Near-certain no conflict"
    ELSE IF prob < 500 THEN "Improbable conflict"
    ELSE IF prob < 990 THEN "Probable conflict"
    ELSE "Near-certain conflict"

\* data_provider.py:149-157  DataProvider.categorize_probability (same text in
\* pdf_generator/data_loader.py:52-60).  prob in thousandths.
categorize_probability(prob) ==
    IF prob <= 10 THEN "Near-certain no conflict"
    ELSE IF prob <= 500 THEN "Improbable conflict"
    ELSE IF prob <= 990 THEN "Probable conflict"
    ELSE "Near-certain conflict"

\* The labels DataProvider.categorize_intensity returns (data_provider.py:
\* 159-171), written there with a hyphen.
IntensityLabels ==
    <<"0", "1-10", "11-100", "101-1,000", "1,001-10,000", "10,001+">>

\* Variant of categorize_intensity with every upper bound exclusive.
categorize_intensity_strict(predicted) ==
    IF predicted = 0 THEN "0"
    ELSE IF predicted < 1000 THEN "1-10"
    ELSE IF predicted < 10000 THEN "11-100"
    ELSE IF predicted < 100000 THEN "101-1,000"
    ELSE IF predicted < 1000000 THEN "1,001-10,000"
    ELSE "10,001+"

\* data_provider.py: DataProvider.categorize_intensity.  predicted in hundredths.
categorize_intensity(predicted) ==
    IF predicted = 0 THEN "0"
    ELSE IF predicted <= 1000 THEN "1-10"
    ELSE IF predicted <= 10000 THEN "11-100"
    ELSE IF predicted <= 100000 THEN "101-1,000"
    ELSE IF predicted <= 1000000 THEN "1,001-10,000"
    ELSE "10,001+"

\* config.py: BAND_BINS (hundredths; -0.1 is -10) and BAND_LABELS.  The
\* labels of config.py are written with an en dash (U+2013), here "--": they
\* are not the strings categorize_intensity returns.
BAND_BINS == <<0 - 10, 0, 1000, 10000, 100000, 1000000, Inf>>
BAND_LABELS ==
    <<"0", "1--10", "11--100", "101--1,000", "1,001--10,000", "10,001+">>

\* utils.py: categorize_band_single.  The loop returns at the first index i
\* (0-based in the source, 1-based here) whose test succeeds, and labs[-1]
\* when none does.
BandHit(pred, i) ==
    \/ (BAND_BINS[i] < pred /\ pred <= BAND_BINS[i + 1])
    \/ (i = 1 /\ pred = BAND_BINS[1])

categorize_band_single(pred) ==
    LET hits == {i \in DOMAIN BAND_LABELS : BandHit(pred, i)}
    IN  IF hits = {} THEN BAND_LABELS[Len(BAND_LABELS)]
        ELSE BAND_LABELS[CHOOSE i \in hits : \A j \in hits : i <= j]

\* Intensities given to the classifiers, in hundredths: every value within
\* Near of a band edge.
BandEdges == {BAND_BINS[i] : i \in 1..(Len(BAND_BINS) - 1)}
Intensities == UNION {(e - Near)..(e + Near) : e \in BandEdges}

CategorizeProbability ==
    /\ \E prob \in Probabilities :
           classified' = [fn |-> "categorize_probability", arg |-> prob,
                          ret |-> categorize_probability(prob)]
    /\ UNCHANGED <<extractVars, rankVars, spatialVars, trendVars, sharedVars, bulkVars>>

CategorizeIntensity ==
    /\ \E predicted \in Intensities :
           classified' = [fn |-> "categorize_intensity", arg |-> predicted,
                          ret |-> categorize_intensity(predicted)]
    /\ UNCHANGED <<extractVars, rankVars, spatialVars, trendVars, sharedVars, bulkVars>>

CategorizeBandSingle ==
    /\ \E pred \in Intensities :
           classified' = [fn |-> "categorize_band_single", arg |-> pred,
                          ret |-> categorize_band_single(pred)]
    /\ UNCHANGED <<extractVars, rankVars, spatialVars, trendVars, sharedVars, bulkVars>>

\* utils.py:6-10  categorize_prob_single (same text in map_01.py:100-108).
\* p in thousandths.
categorize_prob_single(p) ==
    IF p <= 10 THEN "Near-certain no conflict"
    ELSE IF p < 500 THEN "Improbable conflict"
    ELSE IF p < 990 THEN "Probable conflict"
    ELSE "Near-certain conflict"

\* grid_bluf_data_extractor.py:99-111  GridBLUFDataExtractor._categorize_risk.
\* probability in thousandths.
_categorize_risk(probability) ==
    IF probability >= 950 THEN "Near-certain conflict"
    ELSE IF probability >= 750 THEN "Highly probable conflict"
    ELSE IF probability >= 500 THEN "Probable conflict"
    ELSE IF probability >= 250 THEN "Possible conflict"
    ELSE IF probability >= 50 THEN "Unlikely conflict"
    ELSE "Near-certain no conflict"

\* grid_bluf_data_extractor.py:237-261
\* GridBLUFDataExtractor._get_global_category.  fatalities in hundredths.
_get_global_category(fatalities) ==
    IF fatalities = 0
    THEN [name |-> "lowest", range |-> "0 fatalities", count |-> 0]
    ELSE IF fatalities <= 1000
    THEN [name |-> "second lowest", range |-> "1-10 fatalities", count |-> 0]
    ELSE IF fatalities <= 10000
    THEN [name |-> "second highest", range |-> "11-100 fatalities", count |-> 0]
    ELSE [name |-> "highest", range |-> "101-1000 fatalities", count |-> 0]

\* config.py:14-20  PIE_BINS (thousandths) and PIE_LABELS.
PIE_BINS == <<0 - Inf, 10, 500, 990, Inf>>
PIE_LABELS ==
    <<"Near-certain no conflict", "Improbable conflict",
      "Probable conflict", "Near-certain conflict">>

\* pd.cut(x, bins, labels, right=True, include_lowest=True): the label of the
\* interval (bins[i], bins[i+1]] that holds x, the first interval closed on
\* the left as well; NaN when no interval holds x.
cut(x, bins, labels) ==
    LET hits == {i \in DOMAIN labels :
                    \/ (bins[i] < x /\ x <= bins[i + 1])
                    \/ (i = 1 /\ x = bins[1])}
    IN  IF hits = {} THEN "NaN" ELSE labels[CHOOSE i \in hits : TRUE]

\* utils.py:19-25  pie_counts_for_month: the number of rows of the month in
\* each category of PIE_LABELS.
pie_counts_for_month(df, month_idx) ==
    LET InMonth(row) == row.outcome_n = month_idx
        dfm == SelectSeq(df, InMonth)
    IN  [lab \in Range(PIE_LABELS) |->
            Cardinality({i \in DOMAIN dfm :
                            cut(dfm[i].outcome_p, PIE_BINS, PIE_LABELS) = lab})]

\* utils.py:33-36  find_country_row: the first row of the country in the
\* month, as a sequence of at most one row.
find_country_row(df, month_idx, iso3) ==
    LET Mine(row) == row.outcome_n = month_idx /\ row.isoab = iso3
        dfm == SelectSeq(df, Mine)
    IN  IF dfm = <<>> THEN <<>> ELSE <<dfm[1]>>

\* data_loader.py:31-33  latest_month_idx: months are numbered in date order.
latest_month_idx(df) ==
    CHOOSE m \in {df[i].outcome_n : i \in DOMAIN df} :
        \A i \in DOMAIN df : df[i].outcome_n <= m

\* callbacks.py:221-290  update_country_figures on /country/<iso3>: the pie
\* counts of the month and the category highlighted for the country.
update_country_figures(df, month_idx, iso3) ==
    LET HasMonth(row) == row.outcome_n = month_idx
        month_idx_int == IF SelectSeq(df, HasMonth) = <<>>
                         THEN latest_month_idx(df) ELSE month_idx
        pie_counts == pie_counts_for_month(df, month_idx_int)
        target == find_country_row(df, month_idx_int, iso3)
    IN  IF target = <<>>
        THEN [fn |-> "update_country_figures", df |-> df,
              month_idx |-> month_idx_int, iso3 |-> iso3, found |-> FALSE,
              pie_counts |-> pie_counts]
        ELSE [fn |-> "update_country_figures", df |-> df,
              month_idx |-> month_idx_int, iso3 |-> iso3, found |-> TRUE,
              pie_counts |-> pie_counts, arg |-> target[1].outcome_p,
              ret |-> categorize_prob_single(target[1].outcome_p)]

\* Probabilities of the dashboard rows, in thousandths: the ends of [0,1],
\* the inner edges of PIE_BINS and the values next to them.
PieProbs == {0, 10, 11, 499, 500, 501, 989, 990, 991, 1000}

\* get_df(): two countries in month 1, one of them also in month 2.
DashTables ==
    {<<[isoab |-> 1, outcome_n |-> 1, outcome_p |-> a],
       [isoab |-> 2, outcome_n |-> 1, outcome_p |-> b],
       [isoab |-> 1, outcome_n |-> 2, outcome_p |-> 300]>>
        : a \in PieProbs, b \in {10, 500, 1000}}

CategorizeProbSingle ==
    /\ \E p \in Probabilities :
           classified' = [fn |-> "categorize_prob_single", arg |-> p,
                          ret |-> categorize_prob_single(p)]
    /\ UNCHANGED <<extractVars, rankVars, spatialVars, trendVars, sharedVars, bulkVars>>

CategorizeRisk ==
    /\ \E probability \in Probabilities :
           classified' = [fn |-> "_categorize_risk", arg |-> probability,
                          ret |-> _categorize_risk(probability)]
    /\ UNCHANGED <<extractVars, rankVars, spatialVars, trendVars, sharedVars, bulkVars>>

GetGlobalCategory ==
    /\ \E fatalities \in Intensities :
           classified' = [fn |-> "_get_global_category", arg |-> fatalities,
                          ret |-> _get_global_category(fatalities).range,
                          category |-> _get_global_category(fatalities)]
    /\ UNCHANGED <<extractVars, rankVars, spatialVars, trendVars, sharedVars, bulkVars>>

UpdateCountryFigures ==
    /\ \E df \in DashTables, month_idx \in 1..3, iso3 \in 1..3 :
           classified' = update_country_figures(df, month_idx, iso3)
    /\ UNCHANGED <<extractVars, rankVars, spatialVars, trendVars, sharedVars, bulkVars>>

InitClassify ==
    /\ classified = Idle
    /\ month_data = <<>>
    /\ covariate_data = <<>>
    /\ extracted = Idle
    /\ forecast_data = <<>>
    /\ country_map = <<>>
    /\ ranked = Idle
    /\ IdleSpatial /\ IdleTrend /\ IdleShared /\ IdleBulk

NextClassify ==
    \/ CategorizeProbability
    \/ CategorizeIntensity
    \/ CategorizeBandSingle
    \/ CategorizeProbSingle
    \/ CategorizeRisk
    \/ GetGlobalCategory
    \/ UpdateCountryFigures

SpecClassify == InitClassify /\ [][NextClassify]_vars

RiskLabels ==
    {"Near-certain no conflict", "Improbable conflict",
     "Probable conflict", "Near-certain conflict"}

\* C1: for every p in [0,1] categorize_probability returns exactly one of the
\* four risk labels, 'Near-certain no conflict' iff p <= 0.01, 'Improbable
\* conflict' iff 0.01 < p <= 0.50, 'Probable conflict' iff 0.50 < p <= 0.99,
\* 'Near-certain conflict' iff p > 0.99 (0 and 0.01 in the first band, 0.5 in
\* Improbable, 0.99 in Probable, 1.0 in Near-certain conflict).
C1_RiskBandsPartition ==
    (classified.fn = "categorize_probability"
        /\ 0 <= classified.arg /\ classified.arg <= 1000) =>
        LET p == classified.arg
            r == classified.ret
        IN  /\ r \in RiskLabels
            /\ (r = "Near-certain no conflict") <=> (p <= 10)
            /\ (r = "Improbable conflict") <=> (10 < p /\ p <= 500)
            /\ (r = "Probable conflict") <=> (500 < p /\ p <= 990)
            /\ (r = "Near-certain conflict") <=> (p > 990)

C1_Witness ==
    /\ classified.fn = "categorize_probability"
    /\ classified.arg = 500
    /\ classified.ret = "Improbable conflict"

\* C2: the classifiers reject out-of-domain input: categorize_probability
\* returns an error, never a risk label, for p < 0 or p > 1, and
\* categorize_intensity and categorize_band_single return an error, never an
\* intensity label, for x < 0.
C2_OutOfDomainRejected ==
    /\ (classified.fn = "categorize_probability"
            /\ (classified.arg < 0 \/ classified.arg > 1000))
        => classified.ret \notin RiskLabels
    /\ (classified.fn \in {"categorize_intensity", "categorize_band_single"}
            /\ classified.arg < 0)
        => classified.ret \notin Range(IntensityLabels) \cup Range(BAND_LABELS)

\* The band a label of either classifier stands for, 1 to 6.
BandOf(label) ==
    CHOOSE k \in DOMAIN BAND_LABELS :
        label \in {IntensityLabels[k], BAND_LABELS[k]}

\* C16: for every x >= 0, categorize_intensity and categorize_band_single
\* return exactly one of six bands: '0' iff x = 0, then (0,10], (10,100],
\* (100,1000], (1000,10000] and (10000, infinity), upper bounds inclusive;
\* nothing is left uncategorized and both functions choose the same band.
C16_IntensityBandsPartition ==
    (classified.fn \in {"categorize_intensity", "categorize_band_single"}
        /\ classified.arg >= 0) =>
        LET x == classified.arg
            r == classified.ret
            b == BandOf(r)
        IN  /\ r \in (IF classified.fn = "categorize_intensity"
                      THEN Range(IntensityLabels) ELSE Range(BAND_LABELS))
            /\ (b = 1) <=> (x = 0)
            /\ (b = 2) <=> (0 < x /\ x <= 1000)
            /\ (b = 3) <=> (1000 < x /\ x <= 10000)
            /\ (b = 4) <=> (10000 < x /\ x <= 100000)
            /\ (b = 5) <=> (100000 < x /\ x <= 1000000)
            /\ (b = 6) <=> (x > 1000000)
            /\ BandOf(categorize_intensity(x)) = BandOf(categorize_band_single(x))

C16_Witness ==
    /\ classified.fn = "categorize_band_single"
    /\ classified.arg = 1000
    /\ BandOf(classified.ret) = 2

(***************************************************************************)
(* PercentileCalculator and CohortMatcher:                                 *)
(* DataExtractor.extract_template_data                                     *)
(***************************************************************************)

\* Largest number of rows of the monthly forecast table.
MaxCountries == 4

\* Largest number of rows of the covariate table.
MaxCovRows == 2

\* Forecast values of a row: outcome_p in thousandths, predicted in
\* hundredths.  Two risk bands, two intensity bands, and distances that tie
\* (5 and 13 are both 4 away from 9).
OutcomePs == {5, 300}
Predicteds == {500, 900, 1300}

\* Country codes: the table holds one row per country, row i for country i
\* (no operation of the source orders or compares the codes themselves).
Codes == 1..MaxCountries

MonthTables ==
    UNION {{[i \in 1..n |-> [isoab |-> i, outcome_p |-> f[i][1], predicted |-> f[i][2]]] :
                f \in [1..n -> OutcomePs \X Predicteds]} : n \in 0..MaxCountries}

\* A covariate cell is a number or NaN.
NaNCell == [isna |-> TRUE, v |-> 0]
Cell(v) == [isna |-> FALSE, v |-> v]
CovariateCells == {NaNCell, Cell(1), Cell(2)}
CovariateCodes == {1, 2}

CovariateTables ==
    UNION {[1..n -> [isoab : CovariateCodes, col : CovariateCells]] : n \in 0..MaxCovRows}

\* The monthly table used while the covariate table varies.
SampleMonth ==
    <<[isoab |-> 1, outcome_p |-> 5, predicted |-> 500],
      [isoab |-> 2, outcome_p |-> 300, predicted |-> 900]>>

\* A month in which four countries share the pair of country 1
\* ('Improbable conflict', '1-10') and country 2 shares its risk category
\* only.
CohortMonth ==
    <<[isoab |-> 1, outcome_p |-> 300, predicted |-> 900],
      [isoab |-> 2, outcome_p |-> 300, predicted |-> 1300],
      [isoab |-> 3, outcome_p |-> 300, predicted |-> 200],
      [isoab |-> 4, outcome_p |-> 300, predicted |-> 500],
      [isoab |-> 5, outcome_p |-> 300, predicted |-> 300],
      [isoab |-> 6, outcome_p |-> 300, predicted |-> 400]>>

Min(a, b) == IF a <= b THEN a ELSE b
Abs(a) == IF a < 0 THEN 0 - a ELSE a

RECURSIVE Sum(_)
Sum(s) == IF s = <<>> THEN 0 ELSE Head(s) + Sum(Tail(s))

Column(table, name) == [i \in DOMAIN table |-> table[i][name]]

\* A percentile value: the exact fraction num/den, or NaN.
NaN == [nan |-> TRUE, num |-> 0, den |-> 1]

\* Variant of percentile that leaves out the entries equal to value.
percentile_strict(population, value) ==
    LET mask == [i \in DOMAIN population |-> IF population[i] < value THEN 1 ELSE 0]
    IN  IF Len(population) = 0 THEN NaN
        ELSE [nan |-> FALSE, num |-> Sum(mask) * 100, den |-> Len(population)]

\* data_extractor.py:35-36,86 and symlog_module.py:162-163:
\*   (population <= value).mean() * 100
\* The mean of an empty boolean Series is NaN.
percentile(population, value) ==
    LET mask == [i \in DOMAIN population |-> IF population[i] <= value THEN 1 ELSE 0]
    IN  IF Len(population) = 0 THEN NaN
        ELSE [nan |-> FALSE, num |-> Sum(mask) * 100, den |-> Len(population)]

\* f"{x:.0f}": x printed with no decimals, round-half-even.
format_0f(x) ==
    LET q == x.num \div x.den
        r == x.num % x.den
    IN  IF 2 * r < x.den THEN q
        ELSE IF 2 * r > x.den THEN q + 1
        ELSE IF q % 2 = 0 THEN q ELSE q + 1

\* data_provider.py: DataProvider.get_cohort_countries, the codes of the rows
\* of the month with the given category pair, in table order.
get_cohort_countries(risk_category, intensity_category) ==
    LET InCohort(row) ==
            /\ categorize_probability(row.outcome_p) = risk_category
            /\ categorize_intensity(row.predicted) = intensity_category
    IN  Column(SelectSeq(month_data, InCohort), "isoab")

\* Variant of natural_cohort that keeps the last three instead of the first.
natural_cohort_last(cohort_countries, country_code) ==
    LET NotSelf(c) == c # country_code
        others == SelectSeq(cohort_countries, NotSelf)
    IN  SubSeq(others, Len(others) - Min(3, Len(others)) + 1, Len(others))

\* data_extractor.py:42  [c for c in cohort_countries if c != country_code][:3]
natural_cohort(cohort_countries, country_code) ==
    LET NotSelf(c) == c # country_code
        others == SelectSeq(cohort_countries, NotSelf)
    IN  SubSeq(others, 1, Min(3, Len(others)))

\* Variant of similarity_label: fallback whenever the natural cohort is short.
similarity_label_by_size(example_cohorts) ==
    IF Len(example_cohorts) < 3 THEN "generally similar" ELSE "most similar"

\* data_extractor.py:44-45,57-58  the match mode, from example_cohorts as
\* line 42 leaves it.
similarity_label(example_cohorts) ==
    IF Len(example_cohorts) < 3
    THEN (IF example_cohorts # <<>> THEN "most similar" ELSE "generally similar")
    ELSE "most similar"

\* Variant of all_countries that keeps the queried country's own row.
all_countries_with_self(country_code) == month_data

\* data_extractor.py:47  month_data[month_data['isoab'] != country_code]
all_countries(country_code) ==
    LET NotSelf(row) == row.isoab # country_code
    IN  SelectSeq(month_data, NotSelf)

\* data_extractor.py:48-49  all_countries.sort_values('distance').  pandas
\* sorts with kind='quicksort', which is not stable: rows of equal distance
\* come out in an order the library leaves open.  The set of every order of
\* the row positions that is ascending in key.
RECURSIVE SortedOrders(_, _)
SortedOrders(idx, key) ==
    IF idx = {} THEN {<<>>}
    ELSE UNION {{<<i>> \o rest : rest \in SortedOrders(idx \ {i}, key)} :
                    i \in {j \in idx : \A k \in idx : key[j] <= key[k]}}

sort_values(table, predicted_fatalities) ==
    LET distance == [i \in DOMAIN table |-> Abs(table[i].predicted - predicted_fatalities)]
    IN  {[n \in DOMAIN table |-> table[order[n]]] :
            order \in SortedOrders(DOMAIN table, distance)}

\* data_extractor.py:51-54  the backfill taken from one sorted table
fallback_countries(sorted, example_cohorts) ==
    LET NotSelected(row) == row.isoab \notin Range(example_cohorts)
        remaining == SelectSeq(sorted, NotSelected)
        needed == 3 - Len(example_cohorts)
    IN  Column(SubSeq(remaining, 1, Min(needed, Len(remaining))), "isoab")

\* data_provider.py: DataProvider.get_country_covariates, the first covariate
\* row of the country, <<>> standing for None.
get_country_covariates(country_code) ==
    LET Mine(row) == row.isoab = country_code
        country_match == SelectSeq(covariate_data, Mine)
    IN  IF country_match # <<>> THEN <<country_match[1]>> ELSE <<>>

\* data_extractor.py:74-90  covariate_analysis for one column: <<>> when the
\* column is skipped, else the value and its percentile among the non-NaN cells.
covariate_analysis(country_code) ==
    LET country_covariates == get_country_covariates(country_code)
        NotNa(cell) == ~cell.isna
        col_data == Column(SelectSeq(Column(covariate_data, "col"), NotNa), "v")
    IN  IF country_covariates = <<>> THEN <<>>
        ELSE IF country_covariates[1].col.isna THEN <<>>
        ELSE <<[value |-> country_covariates[1].col.v,
                percentile |-> percentile(col_data, country_covariates[1].col.v)]>>

\* Variant of no_data: an ordinary result with default fields, its
\* percentiles computed over the month's table as it is.
no_data_sentinel(country_code) ==
    [fn |-> "extract_template_data", country_code |-> country_code,
     raised |-> "none", risk_category |-> "Unknown", intensity_category |-> "Unknown",
     prob_percentile |-> percentile(Column(month_data, "outcome_p"), 0),
     pred_percentile |-> percentile(Column(month_data, "predicted"), 0),
     prob_percentile_text |-> 0, pred_percentile_text |-> 0,
     natural |-> <<>>, example_cohorts |-> <<>>,
     similarity_label |-> "generally similar",
     covariate_analysis |-> <<>>]

\* data_extractor.py:25-26  raise ValueError("No data for country ...")
no_data(country_code) ==
    [fn |-> "extract_template_data", country_code |-> country_code,
     raised |-> "ValueError"]

\* data_extractor.py:15-123  DataExtractor.extract_template_data: the set of
\* outcomes the call can have (one for each order sort_values may produce).
\* natural is example_cohorts as line 42 leaves it.
extract_template_data(country_code) ==
    LET Mine(row) == row.isoab = country_code
        target_country == SelectSeq(month_data, Mine)
    IN  IF target_country = <<>> THEN {no_data(country_code)}
        ELSE
        LET target_row == target_country[1]
            probability == target_row.outcome_p
            predicted_fatalities == target_row.predicted
            risk_category == categorize_probability(probability)
            intensity_category == categorize_intensity(predicted_fatalities)
            prob_percentile == percentile(Column(month_data, "outcome_p"), probability)
            pred_percentile ==
                percentile(Column(month_data, "predicted"), predicted_fatalities)
            cohort_countries == get_cohort_countries(risk_category, intensity_category)
            natural == natural_cohort(cohort_countries, country_code)
            Outcome(example_cohorts) ==
                [fn |-> "extract_template_data", country_code |-> country_code,
                 raised |-> "none",
                 risk_category |-> risk_category,
                 intensity_category |-> intensity_category,
                 prob_percentile |-> prob_percentile,
                 pred_percentile |-> pred_percentile,
                 prob_percentile_text |-> format_0f(prob_percentile),
                 pred_percentile_text |-> format_0f(pred_percentile),
                 natural |-> natural,
                 example_cohorts |-> example_cohorts,
                 similarity_label |-> similarity_label(natural),
                 covariate_analysis |-> covariate_analysis(country_code)]
        IN  IF Len(natural) < 3
            THEN {Outcome(natural \o fallback_countries(sorted, natural)) :
                    sorted \in sort_values(all_countries(country_code),
                                           predicted_fatalities)}
            ELSE {Outcome(natural)}

ExtractTemplateData ==
    /\ \E country_code \in Codes :
           extracted' \in extract_template_data(country_code)
    /\ UNCHANGED <<month_data, covariate_data, classifyVars, rankVars,
                 spatialVars, trendVars, sharedVars, bulkVars>>

InitExtract ==
    /\ \/ (month_data \in MonthTables /\ covariate_data = <<>>)
       \/ (month_data = SampleMonth /\ covariate_data \in CovariateTables)
       \/ (month_data = CohortMonth /\ covariate_data = <<>>)
    /\ extracted = Idle
    /\ classified = Idle
    /\ forecast_data = <<>>
    /\ country_map = <<>>
    /\ ranked = Idle
    /\ IdleSpatial /\ IdleTrend /\ IdleShared /\ IdleBulk

NextExtract == ExtractTemplateData

SpecExtract == InitExtract /\ [][NextExtract]_vars

Returned == extracted.fn = "extract_template_data" /\ extracted.raised = "none"

\* The row of the queried country, and the rows of the other countries.
QueryRow == CHOOSE i \in DOMAIN month_data : month_data[i].isoab = extracted.country_code
Others == {i \in DOMAIN month_data : month_data[i].isoab # extracted.country_code}

\* Row i has the category pair of the queried country.
SharesPair(i) ==
    /\ categorize_probability(month_data[i].outcome_p)
         = categorize_probability(month_data[QueryRow].outcome_p)
    /\ categorize_intensity(month_data[i].predicted)
         = categorize_intensity(month_data[QueryRow].predicted)

NaturalRows == {i \in Others : SharesPair(i)}
BackfillAdded == Len(extracted.example_cohorts) > Len(extracted.natural)

RECURSIVE InTableOrder(_)
InTableOrder(rows) ==
    IF rows = {} THEN <<>>
    ELSE LET i == CHOOSE r \in rows : \A q \in rows : r <= q
         IN  <<month_data[i].isoab>> \o InTableOrder(rows \ {i})

Distance(i) == Abs(month_data[i].predicted - month_data[QueryRow].predicted)

\* Row i comes before row j in ascending distance, ties in table order.
Closer(i, j) == Distance(i) < Distance(j) \/ (Distance(i) = Distance(j) /\ i < j)

RECURSIVE ByDistanceThenRow(_)
ByDistanceThenRow(rows) ==
    IF rows = {} THEN <<>>
    ELSE LET i == CHOOSE r \in rows : \A q \in rows \ {r} : Closer(r, q)
         IN  <<month_data[i].isoab>> \o ByDistanceThenRow(rows \ {i})

\* C4: with fewer than 3 other countries sharing the pair, the result is all
\* of them in table order, followed by the remaining other countries in
\* ascending absolute difference of predicted value, ties kept in table
\* order, until 3 are selected or no country remains; its length is
\* min(3, number of other countries).
C4_BackfillByDistanceTiesInOrder ==
    (Returned /\ Cardinality(NaturalRows) < 3) =>
        LET all == InTableOrder(NaturalRows) \o ByDistanceThenRow(Others \ NaturalRows)
        IN  /\ extracted.example_cohorts = SubSeq(all, 1, Min(3, Len(all)))
            /\ Len(extracted.example_cohorts) = Min(3, Cardinality(Others))

\* C5: the cohort list never contains the queried country, never contains a
\* country twice and has at most 3 entries, whether filled from the natural
\* cohort, from backfill, or from both.
C5_CohortExcludesQueryNoDuplicates ==
    Returned =>
        LET c == extracted.example_cohorts
        IN  /\ extracted.country_code \notin Range(c)
            /\ \A i, j \in DOMAIN c : i # j => c[i] # c[j]
            /\ Len(c) <= 3

C5_Witness ==
    /\ Returned
    /\ extracted.natural # <<>>
    /\ BackfillAdded
    /\ Len(extracted.example_cohorts) = 3

\* C17: when at least 3 other countries share the queried country's exact
\* (risk category, intensity category) pair, the cohort is the first 3 of
\* them in table order, without any re-sorting, the match mode is
\* 'most similar', and no country from outside the natural cohort appears.
C17_NaturalCohortFirstThree ==
    (Returned /\ Cardinality(NaturalRows) >= 3) =>
        /\ extracted.example_cohorts = SubSeq(InTableOrder(NaturalRows), 1, 3)
        /\ extracted.similarity_label = "most similar"
        /\ \A c \in Range(extracted.example_cohorts) :
               \E i \in NaturalRows : month_data[i].isoab = c

\* Four countries share the pair and the fourth is left out.
C17_Witness ==
    /\ Returned
    /\ Cardinality(NaturalRows) > 3
    /\ extracted.example_cohorts = <<3, 4, 5>>

\* value/population as a percentile: pct is the fraction
\* 100 * (number of population entries <= value) / (population size).
IsInclusivePercentile(pct, population, value) ==
    LET atMost == Cardinality({i \in DOMAIN population : population[i] <= value})
    IN  /\ ~pct.nan
        /\ pct.num * Len(population) = 100 * atMost * pct.den
        /\ 0 <= pct.num /\ pct.num <= 100 * pct.den
        /\ (\E i \in DOMAIN population : population[i] = value) => pct.num > 0

\* The non-NaN cells of the covariate column, in table order.
NonNaNCells ==
    LET keep == {i \in DOMAIN covariate_data : ~covariate_data[i].col.isna}
        RECURSIVE Cells(_)
        Cells(rows) ==
            IF rows = {} THEN <<>>
            ELSE LET i == CHOOSE r \in rows : \A q \in rows : r <= q
                 IN  <<covariate_data[i].col.v>> \o Cells(rows \ {i})
    IN  Cells(keep)

C10_EmptyPopulationIsError ==
    (extracted.fn = "extract_template_data") =>
        /\ (month_data = <<>>) => extracted.raised = "ValueError"
        /\ (extracted.raised = "none") =>
              /\ ~extracted.prob_percentile.nan
              /\ ~extracted.pred_percentile.nan
              /\ \A i \in DOMAIN extracted.covariate_analysis :
                     ~extracted.covariate_analysis[i].percentile.nan

C10_Witness ==
    /\ extracted.fn = "extract_template_data"
    /\ month_data = <<>>
    /\ extracted.raised = "ValueError"

(***************************************************************************)
(* RankEngine: GridBLUFDataExtractor._get_country_rank                     *)
(***************************************************************************)

\* Largest number of rows of the grid forecast table.
MaxGrids == 3

\* Row i of the table is the forecast of grid i (the source compares grid
\* identifiers for equality only); the country of each grid varies.
Months == {1, 2}
OutcomeNs == {0, 50}
Countries == {"A", "B"}
None == "None"

Gids == 1..MaxGrids

ForecastTables ==
    UNION {{[i \in 1..n |-> [priogrid_gid |-> i, month_id |-> f[i][1], outcome_n |-> f[i][2]]] :
                f \in [1..n -> Months \X OutcomeNs]} : n \in 0..MaxGrids}

\* The partition of the specification's example: forecasts 100, 80, 50, 20,
\* 0 of five grids of one country, in one month.
ExampleForecast ==
    [i \in 1..5 |-> [priogrid_gid |-> i, month_id |-> 1,
                     outcome_n |-> <<100, 80, 50, 20, 0>>[i]]]
ExampleCountryMap == [i \in 1..5 |-> "A"]

\* GridDataProvider.py:52-54  country_map.get(priogrid_gid)
get_country_name(priogrid_gid) ==
    IF priogrid_gid \in DOMAIN country_map THEN country_map[priogrid_gid] ELSE None

\* Variant of sort_reverse without reverse=True.
RECURSIVE sort_ascending(_)
sort_ascending(country_grids) ==
    IF country_grids = <<>> THEN <<>>
    ELSE LET first == CHOOSE i \in DOMAIN country_grids :
                 /\ \A j \in DOMAIN country_grids : country_grids[i][2] <= country_grids[j][2]
                 /\ \A j \in 1..(i - 1) : country_grids[j][2] # country_grids[i][2]
             rest == [n \in 1..(Len(country_grids) - 1) |->
                         country_grids[IF n < first THEN n ELSE n + 1]]
         IN  <<country_grids[first]>> \o sort_ascending(rest)

\* Variant of sort_reverse in which entries of equal key come out in the
\* reverse of their order in the list.
RECURSIVE sort_reverse_ties_reversed(_)
sort_reverse_ties_reversed(country_grids) ==
    IF country_grids = <<>> THEN <<>>
    ELSE LET first == CHOOSE i \in DOMAIN country_grids :
                 /\ \A j \in DOMAIN country_grids : country_grids[i][2] >= country_grids[j][2]
                 /\ \A j \in (i + 1)..Len(country_grids) :
                        country_grids[j][2] # country_grids[i][2]
             rest == [n \in 1..(Len(country_grids) - 1) |->
                         country_grids[IF n < first THEN n ELSE n + 1]]
         IN  <<country_grids[first]>> \o sort_reverse_ties_reversed(rest)

\* grid_bluf_data_extractor.py:228  country_grids.sort(key=lambda x: x[1],
\* reverse=True): list.sort is stable, and with reverse=True entries of
\* equal key keep their order.
RECURSIVE sort_reverse(_)
sort_reverse(country_grids) ==
    IF country_grids = <<>> THEN <<>>
    ELSE LET first == CHOOSE i \in DOMAIN country_grids :
                 /\ \A j \in DOMAIN country_grids : country_grids[i][2] >= country_grids[j][2]
                 /\ \A j \in 1..(i - 1) : country_grids[j][2] # country_grids[i][2]
             rest == [n \in 1..(Len(country_grids) - 1) |->
                         country_grids[IF n < first THEN n ELSE n + 1]]
         IN  <<country_grids[first]>> \o sort_reverse(rest)

\* grid_bluf_data_extractor.py:230  next((i + 1 for ... if gid == priogrid_gid), 0)
rank_of(country_grids, priogrid_gid) ==
    LET at == {i \in DOMAIN country_grids : country_grids[i][1] = priogrid_gid}
    IN  IF at = {} THEN 0 ELSE CHOOSE i \in at : \A j \in at : i <= j

\* Variant of rank_record whose higher counts the grid itself.
rank_record_counting_self(rank, total) ==
    [rank |-> rank, total |-> total, higher |-> rank, lower |-> total - rank]

\* Variant of rank_record with higher and lower exchanged.
rank_record_exchanged(rank, total) ==
    [rank |-> rank, total |-> total, higher |-> total - rank, lower |-> rank - 1]

\* grid_bluf_data_extractor.py:231-235
rank_record(rank, total) ==
    [rank |-> rank, total |-> total, higher |-> rank - 1, lower |-> total - rank]

Unranked == [rank |-> 0, total |-> 0, higher |-> 0, lower |-> 0]

\* grid_bluf_data_extractor.py:202-235  GridBLUFDataExtractor._get_country_rank
_get_country_rank(priogrid_gid, target_month_id, country_name) ==
    LET Focal(row) == row.priogrid_gid = priogrid_gid /\ row.month_id = target_month_id
        focal_data == SelectSeq(forecast_data, Focal)
        InMonth(row) == row.month_id = target_month_id
        country_forecast == SelectSeq(forecast_data, InMonth)
        InCountry(row) == get_country_name(row.priogrid_gid) = country_name
        of_country == SelectSeq(country_forecast, InCountry)
        country_grids == [i \in DOMAIN of_country |->
                             <<of_country[i].priogrid_gid, of_country[i].outcome_n>>]
        sorted == sort_reverse(country_grids)
    IN  IF country_name = None THEN Unranked
        ELSE IF focal_data = <<>> THEN Unranked
        ELSE IF country_grids = <<>> THEN Unranked
        ELSE rank_record(rank_of(sorted, priogrid_gid), Len(sorted))

GetCountryRank ==
    /\ \E priogrid_gid \in Gids, target_month_id \in Months,
          country_name \in Countries \cup {None} :
           ranked' = [fn |-> "_get_country_rank", priogrid_gid |-> priogrid_gid,
                      target_month_id |-> target_month_id,
                      country_name |-> country_name,
                      ret |-> _get_country_rank(priogrid_gid, target_month_id,
                                                country_name)]
    /\ UNCHANGED <<forecast_data, country_map, classifyVars, extractVars,
                 spatialVars, trendVars, sharedVars, bulkVars>>

\* grid_bluf_data_extractor.py:14-97: the guard of lines 32-33 and, of the
\* returned dict, the fields drawn from the baseline forecast and the
\* country table.
extract_bluf_data(priogrid_gid, target_month_id) ==
    LET country_name == get_country_name(priogrid_gid)
        Mine(row) == /\ row.priogrid_gid = priogrid_gid
                     /\ row.month_id = target_month_id
        baseline_target == SelectSeq(forecast_data, Mine)
    IN  IF baseline_target = <<>>
        THEN [fn |-> "extract_bluf_data", priogrid_gid |-> priogrid_gid,
              target_month_id |-> target_month_id, raised |-> "ValueError"]
        ELSE LET country_rank == _get_country_rank(priogrid_gid, target_month_id,
                                                   country_name)
             IN  [fn |-> "extract_bluf_data", priogrid_gid |-> priogrid_gid,
                  target_month_id |-> target_month_id, raised |-> "none",
                  grid_id |-> priogrid_gid, country |-> country_name,
                  baseline_fatalities |-> baseline_target[1].outcome_n,
                  country_rank |-> country_rank.rank,
                  country_total |-> country_rank.total,
                  country_higher |-> country_rank.higher,
                  country_lower |-> country_rank.lower]

ExtractBlufData ==
    /\ \E priogrid_gid \in Gids, target_month_id \in Months :
           ranked' = extract_bluf_data(priogrid_gid, target_month_id)
    /\ UNCHANGED <<forecast_data, country_map, classifyVars, extractVars,
                 spatialVars, trendVars, sharedVars, bulkVars>>

InitRank ==
    /\ \/ /\ forecast_data \in ForecastTables
          /\ country_map \in [DOMAIN forecast_data -> Countries]
       \/ /\ forecast_data = ExampleForecast
          /\ country_map = ExampleCountryMap
    /\ ranked = Idle
    /\ IdleSpatial /\ IdleTrend /\ IdleShared /\ IdleBulk
    /\ classified = Idle
    /\ month_data = <<>>
    /\ covariate_data = <<>>
    /\ extracted = Idle

NextRank ==
    \/ GetCountryRank
    \/ ExtractBlufData

SpecRank == InitRank /\ [][NextRank]_vars

RankCalled == ranked.fn = "_get_country_rank"

\* The rows ranked for the call: those of the target month whose grid lies
\* in the named country.
Partition ==
    {i \in DOMAIN forecast_data :
        /\ forecast_data[i].month_id = ranked.target_month_id
        /\ get_country_name(forecast_data[i].priogrid_gid) = ranked.country_name}

FocalRows == {i \in Partition : forecast_data[i].priogrid_gid = ranked.priogrid_gid}
Found == RankCalled /\ FocalRows # {}
FocalValue == forecast_data[CHOOSE i \in FocalRows : TRUE].outcome_n

\* C6: _get_country_rank returns exactly {rank 0, total 0, higher 0, lower 0}
\* whenever the focal grid is not among the grids ranked for the given
\* country name and month, also when that country has other grids in the
\* month; no field is negative.
C6_AbsentGridIsUnranked ==
    (RankCalled /\ FocalRows = {}) =>
        /\ ranked.ret = Unranked
        /\ ranked.ret.higher >= 0 /\ ranked.ret.lower >= 0

\* C7: for a grid found in its partition, rank is its 1-based position in
\* the partition sorted by forecast value in descending order, total the
\* partition size, higher = rank - 1 and lower = total - rank, so that
\* 1 <= rank <= total and rank + lower = total; in the partition
\* [100, 80, 50, 20, 0] the grid with value 50 gets rank 3, higher 2, lower 2.
C7_RankIsDescendingPosition ==
    Found =>
        LET r == ranked.ret
            above == Cardinality({i \in Partition : forecast_data[i].outcome_n > FocalValue})
            level == Cardinality({i \in Partition : forecast_data[i].outcome_n = FocalValue})
        IN  /\ above + 1 <= r.rank /\ r.rank <= above + level
            /\ r.total = Cardinality(Partition)
            /\ r.higher = r.rank - 1
            /\ r.lower = r.total - r.rank
            /\ 1 <= r.rank /\ r.rank <= r.total
            /\ r.rank + r.lower = r.total
            /\ (forecast_data = ExampleForecast /\ FocalValue = 50) =>
                   (r.rank = 3 /\ r.higher = 2 /\ r.lower = 2 /\ r.total = 5)

C7_Witness ==
    /\ Found
    /\ forecast_data = ExampleForecast
    /\ FocalValue = 50
    /\ ranked.ret = [rank |-> 3, total |-> 5, higher |-> 2, lower |-> 2]

\* C8 as claimed: for every grid found in its partition,
\* higher + rank = total.
C8_HigherPlusRankIsTotal ==
    Found => ranked.ret.higher + ranked.ret.rank = ranked.ret.total

\* C8 as amended: for every grid found in its partition,
\* higher + lower + 1 = total; higher + rank = total holds exactly for the
\* grid in the middle of an odd-sized partition (total = 2 * rank - 1).
C8_HigherPlusLowerPlusOneIsTotal ==
    Found =>
        /\ ranked.ret.higher + ranked.ret.lower + 1 = ranked.ret.total
        /\ (ranked.ret.higher + ranked.ret.rank = ranked.ret.total)
              <=> (ranked.ret.total = 2 * ranked.ret.rank - 1)

C8_Witness ==
    /\ Found
    /\ ranked.ret.total >= 3
    /\ ranked.ret.rank = 1
    /\ ranked.ret.higher + ranked.ret.rank # ranked.ret.total

(***************************************************************************)
(* SpatialAdjacencyResolver: GridSpatialModule                             *)
(*                                                                         *)
(* The shapefile is a block of three by three square cells.  A row holds   *)
(* the cell's gid, its polygon (here the column and row of the square in   *)
(* the block) and the attribute columns xcoord / ycoord, which the         *)
(* direction computation reads.  In a sound shapefile the attributes are   *)
(* the polygon's centre; the tables explored also contain rows whose       *)
(* attributes are not, blocks with cells missing, and cells of another     *)
(* country or of none.  The forecast value shown in a cell is left out.    *)
(***************************************************************************)

\* Largest number of rows whose xcoord / ycoord is not the polygon's centre.
MaxMoved == 1

\* Largest number of cells of the block that the shapefile lacks.
MaxMissing == 1

\* Largest number of cells that are not in country "A".
MaxForeign == 2

Coords == {0 - 1, 0, 1}

\* PRIO-GRID numbers its cells west to east, then south to north.
gid_at(x, y) == (y + 1) * 3 + (x + 1) + 1
MeshGids == {gid_at(x, y) : x \in Coords, y \in Coords}

\* The gids the operations are called with: every cell and one unknown gid.
CallGids == MeshGids \cup {0}

MeshCell(x, y) ==
    [gid |-> gid_at(x, y), geometry |-> <<x, y>>, xcoord |-> x, ycoord |-> y]

\* gpd.read_file(shapefile_path): the sound block, rows in gid order.
Mesh ==
    [g \in 1..Cardinality(MeshGids) |->
        CHOOSE c \in {MeshCell(x, y) : x \in Coords, y \in Coords} : c.gid = g]

SubsetsUpTo(S, k) == {T \in SUBSET S : Cardinality(T) <= k}

\* The block with the attributes of up to MaxMoved rows set to one and the
\* same position, as when a load fills them with a default.
MovedTables ==
    UNION {{[g \in DOMAIN Mesh |->
                IF g \in D
                THEN [Mesh[g] EXCEPT !.xcoord = at[1], !.ycoord = at[2]]
                ELSE Mesh[g]] : at \in Coords \X Coords}
           : D \in SubsetsUpTo(MeshGids, MaxMoved)}

\* The block without up to MaxMissing of its cells.
MissingTables ==
    {SelectSeq(Mesh, LAMBDA r : r.gid \notin M)
        : M \in SubsetsUpTo(MeshGids, MaxMissing)}

\* Every cell in country "A".
HomeMap == [g \in MeshGids |-> "A"]

\* Up to MaxForeign cells in country "B" or in no country at all.
CountryMaps ==
    UNION {{[g \in MeshGids \ (F \ B) |-> IF g \in B THEN "B" ELSE "A"]
                : B \in SUBSET F}
           : F \in SubsetsUpTo(MeshGids, MaxForeign)}

\* shapely touches: two squares of the block touch when they share an edge
\* or a corner; a polygon does not touch itself.
touches(geometry, focal_geom) ==
    /\ geometry # focal_geom
    /\ Abs(geometry[1] - focal_geom[1]) <= 1
    /\ Abs(geometry[2] - focal_geom[2]) <= 1

\* grid_spatial_module.py:20-30
_get_neighbors(priogrid_gid) ==
    LET focal_row == SelectSeq(gdf, LAMBDA r : r.gid = priogrid_gid)
    IN  IF focal_row = <<>> THEN <<>>
        ELSE LET focal_geom == focal_row[1].geometry
                 neighbors ==
                     SelectSeq(gdf, LAMBDA r : touches(r.geometry, focal_geom))
             IN  [i \in DOMAIN neighbors |-> neighbors[i].gid]

\* Variant of _get_geographic_position with the east/west letter first.
_get_geographic_position_ew_first(focal_gid, neighbor_gid) ==
    LET focal_row == SelectSeq(gdf, LAMBDA r : r.gid = focal_gid)[1]
        neighbor_row == SelectSeq(gdf, LAMBDA r : r.gid = neighbor_gid)[1]
        ns == IF neighbor_row.ycoord > focal_row.ycoord THEN "N"
              ELSE IF neighbor_row.ycoord < focal_row.ycoord THEN "S"
              ELSE ""
        ew == IF neighbor_row.xcoord > focal_row.xcoord THEN "E"
              ELSE IF neighbor_row.xcoord < focal_row.xcoord THEN "W"
              ELSE ""
    IN  ew \o ns

\* grid_spatial_module.py:32-57
_get_geographic_position(focal_gid, neighbor_gid) ==
    LET focal_row == SelectSeq(gdf, LAMBDA r : r.gid = focal_gid)[1]
        neighbor_row == SelectSeq(gdf, LAMBDA r : r.gid = neighbor_gid)[1]
        focal_x == focal_row.xcoord
        focal_y == focal_row.ycoord
        neighbor_x == neighbor_row.xcoord
        neighbor_y == neighbor_row.ycoord
        ns == IF neighbor_y > focal_y THEN "N"
              ELSE IF neighbor_y < focal_y THEN "S"
              ELSE ""
        ew == IF neighbor_x > focal_x THEN "E"
              ELSE IF neighbor_x < focal_x THEN "W"
              ELSE ""
    IN  ns \o ew


\* grid_spatial_module.py:111-120: the loop over neighbor_gids.  Assigning
\* grid_data[position] replaces whatever the key held.
RECURSIVE place_neighbors(_, _, _)
place_neighbors(grid_data, priogrid_gid, neighbor_gids) ==
    IF neighbor_gids = <<>> THEN grid_data
    ELSE LET neighbor_gid == Head(neighbor_gids)
             position == _get_geographic_position(priogrid_gid, neighbor_gid)
             cell == [gid |-> neighbor_gid,
                      country |-> get_country_name(neighbor_gid)]
         IN  place_neighbors(
                 [p \in DOMAIN grid_data \cup {position} |->
                     IF p = position THEN cell ELSE grid_data[p]],
                 priogrid_gid, Tail(neighbor_gids))

\* grid_spatial_module.py:88-217: the picture is drawn from grid_data.
generate_content(priogrid_gid) ==
    LET neighbor_gids == _get_neighbors(priogrid_gid)
        CENTER == [gid |-> priogrid_gid,
                   country |-> get_country_name(priogrid_gid)]
    IN  IF Len(neighbor_gids) # 8
        THEN [fn |-> "generate_content", priogrid_gid |-> priogrid_gid,
              raised |-> "none", ret |-> None,
              neighbor_gids |-> neighbor_gids, grid_data |-> <<>>]
        ELSE [fn |-> "generate_content", priogrid_gid |-> priogrid_gid,
              raised |-> "none", ret |-> "img_path",
              neighbor_gids |-> neighbor_gids,
              grid_data |-> place_neighbors([p \in {"CENTER"} |-> CENTER],
                                            priogrid_gid, neighbor_gids)]

\* Variant of cross_border_count that counts a neighbour only when both
\* countries are known, as the red border lines of generate_content do.
RECURSIVE cross_border_known_only(_, _)
cross_border_known_only(neighbor_gids, focal_country) ==
    IF neighbor_gids = <<>> THEN 0
    ELSE LET neighbor_country == get_country_name(Head(neighbor_gids))
         IN  (IF neighbor_country # None /\ focal_country # None
                    /\ neighbor_country # focal_country THEN 1 ELSE 0)
             + cross_border_known_only(Tail(neighbor_gids), focal_country)

\* grid_spatial_module.py:235-245: the counting loop of get_interpretation.
RECURSIVE cross_border_count(_, _)
cross_border_count(neighbor_gids, focal_country) ==
    IF neighbor_gids = <<>> THEN 0
    ELSE LET neighbor_country == get_country_name(Head(neighbor_gids))
         IN  (IF neighbor_country # focal_country THEN 1 ELSE 0)
             + cross_border_count(Tail(neighbor_gids), focal_country)

\* grid_spatial_module.py:266-271
border_desc(count) ==
    IF count = 0 THEN "All neighboring cells are within the same country"
    ELSE IF count = 1 THEN "1 neighboring cell is from a different country"
    ELSE <<count, "neighboring cells are from different countries">>

\* grid_spatial_module.py:219-271: the neighbours and the border sentence of
\* the returned text.
get_interpretation(priogrid_gid) ==
    LET neighbor_gids == _get_neighbors(priogrid_gid)
        focal_country == get_country_name(priogrid_gid)
        count == cross_border_count(neighbor_gids, focal_country)
    IN  IF neighbor_gids = <<>>
        THEN [fn |-> "get_interpretation", priogrid_gid |-> priogrid_gid,
              raised |-> "none", neighbor_gids |-> neighbor_gids,
              ret |-> "Unable to identify neighboring grid cells."]
        ELSE [fn |-> "get_interpretation", priogrid_gid |-> priogrid_gid,
              raised |-> "none", neighbor_gids |-> neighbor_gids,
              cross_border_count |-> count, ret |-> border_desc(count)]

GetNeighbors ==
    /\ \E priogrid_gid \in CallGids :
           spatial' = [fn |-> "_get_neighbors", priogrid_gid |-> priogrid_gid,
                       raised |-> "none", ret |-> _get_neighbors(priogrid_gid)]
    /\ UNCHANGED <<gdf, classifyVars, extractVars, rankVars, trendVars,
                 sharedVars, bulkVars>>

\* Called, as generate_content does, for a cell and one of its neighbours.
GetGeographicPosition ==
    /\ \E focal_gid \in MeshGids :
       \E neighbor_gid \in Range(_get_neighbors(focal_gid)) :
           spatial' = [fn |-> "_get_geographic_position",
                       focal_gid |-> focal_gid, neighbor_gid |-> neighbor_gid,
                       raised |-> "none",
                       ret |-> _get_geographic_position(focal_gid, neighbor_gid)]
    /\ UNCHANGED <<gdf, classifyVars, extractVars, rankVars, trendVars,
                 sharedVars, bulkVars>>

GenerateContent ==
    /\ \E priogrid_gid \in CallGids :
           spatial' = generate_content(priogrid_gid)
    /\ UNCHANGED <<gdf, classifyVars, extractVars, rankVars, trendVars,
                 sharedVars, bulkVars>>

GetInterpretation ==
    /\ \E priogrid_gid \in CallGids :
           spatial' = get_interpretation(priogrid_gid)
    /\ UNCHANGED <<gdf, classifyVars, extractVars, rankVars, trendVars,
                 sharedVars, bulkVars>>

InitSpatial ==
    /\ \/ gdf \in MovedTables /\ country_map = HomeMap
       \/ gdf \in MissingTables /\ country_map = HomeMap
       \/ gdf = Mesh /\ country_map \in CountryMaps
    /\ spatial = Idle
    /\ forecast_data = <<>>
    /\ ranked = Idle
    /\ classified = Idle
    /\ month_data = <<>>
    /\ covariate_data = <<>>
    /\ extracted = Idle
    /\ IdleTrend /\ IdleShared /\ IdleBulk

NextSpatial ==
    \/ GetNeighbors
    \/ GetGeographicPosition
    \/ GenerateContent
    \/ GetInterpretation

SpecSpatial == InitSpatial /\ [][NextSpatial]_vars

\* The row of a cell, and whether two cells have the same xcoord and ycoord.
CellRow(gid) == SelectSeq(gdf, LAMBDA r : r.gid = gid)[1]
SameCentroid(a, b) ==
    /\ CellRow(a).xcoord = CellRow(b).xcoord
    /\ CellRow(a).ycoord = CellRow(b).ycoord

\* The neighbours generate_content has placed in grid_data.
PlacedLabels == DOMAIN spatial.grid_data \ {"CENTER"}

\* C11: the adjacency generate_content builds for a focal cell (grid_data)
\* holds at most one neighbour per compass label and at most 8 neighbours,
\* and no neighbour is lost: when two touching cells map to the same label an
\* error is reported and neither entry silently replaces the other.
C11_NoNeighborLost ==
    (spatial.fn = "generate_content" /\ Len(spatial.neighbor_gids) = 8) =>
        /\ Cardinality(PlacedLabels) <= 8
        /\ \/ spatial.raised # "none"
           \/ \A i \in DOMAIN spatial.neighbor_gids :
                  \E p \in PlacedLabels :
                      spatial.grid_data[p].gid = spatial.neighbor_gids[i]

\* C12: a neighbour whose xcoord and ycoord both equal the focal cell's is
\* rejected as a data error by the direction computation: it gets no label,
\* not even the empty one, and is never stored in the adjacency.
C12_CoincidentCentroidRejected ==
    /\ (spatial.fn = "_get_geographic_position"
            /\ SameCentroid(spatial.focal_gid, spatial.neighbor_gid))
        => (spatial.raised # "none" /\ spatial.ret # "")
    /\ (spatial.fn = "generate_content" /\ Len(spatial.neighbor_gids) = 8)
        => \A p \in PlacedLabels :
               ~SameCentroid(spatial.priogrid_gid, spatial.grid_data[p].gid)

Sign(d) == IF d > 0 THEN 1 ELSE IF d < 0 THEN 0 - 1 ELSE 0

\* The label for the signs of (neighbour - focal) in y and in x.
Compass(sy, sx) ==
    CASE sy = 1 /\ sx = 0 -> "N"
      [] sy = 1 /\ sx = 1 -> "NE"
      [] sy = 0 /\ sx = 1 -> "E"
      [] sy = 0 - 1 /\ sx = 1 -> "SE"
      [] sy = 0 - 1 /\ sx = 0 -> "S"
      [] sy = 0 - 1 /\ sx = 0 - 1 -> "SW"
      [] sy = 0 /\ sx = 0 - 1 -> "W"
      [] sy = 1 /\ sx = 0 - 1 -> "NW"
      [] OTHER -> ""

CompassLabels == {"N", "NE", "E", "SE", "S", "SW", "W", "NW"}

Opposite(label) ==
    CASE label = "N" -> "S"
      [] label = "NE" -> "SW"
      [] label = "E" -> "W"
      [] label = "SE" -> "NW"
      [] label = "S" -> "N"
      [] label = "SW" -> "NE"
      [] label = "W" -> "E"
      [] label = "NW" -> "SE"
      [] OTHER -> label

\* C18: _get_geographic_position labels a neighbour by the sign of the
\* coordinate differences: 'N' if its y is greater than the focal cell's, 'S'
\* if smaller, nothing if equal; 'E' if its x is greater, 'W' if smaller,
\* nothing if equal; the N/S part comes first.  With at least one non-zero
\* difference the result is exactly one of N, NE, E, SE, S, SW, W, NW, and
\* swapping focal cell and neighbour gives the opposite label.
C18_LabelBySignOfDeltas ==
    (spatial.fn = "_get_geographic_position") =>
        LET dy == CellRow(spatial.neighbor_gid).ycoord
                      - CellRow(spatial.focal_gid).ycoord
            dx == CellRow(spatial.neighbor_gid).xcoord
                      - CellRow(spatial.focal_gid).xcoord
        IN  /\ spatial.ret = Compass(Sign(dy), Sign(dx))
            /\ (dy # 0 \/ dx # 0) => spatial.ret \in CompassLabels
            /\ _get_geographic_position(spatial.neighbor_gid, spatial.focal_gid)
                   = Opposite(spatial.ret)

C18_Witness ==
    /\ spatial.fn = "_get_geographic_position"
    /\ spatial.ret = "SW"
    /\ _get_geographic_position(spatial.neighbor_gid, spatial.focal_gid) = "NE"

\* C19: get_interpretation counts a neighbour as cross-border exactly when
\* its country differs from the focal cell's country: cross_border_count is
\* the number of returned neighbours whose country is not the focal country,
\* and it is 0 when every neighbour belongs to the focal country.
C19_CrossBorderCount ==
    (spatial.fn = "get_interpretation" /\ spatial.neighbor_gids # <<>>) =>
        LET focal_country == get_country_name(spatial.priogrid_gid)
            foreign ==
                {i \in DOMAIN spatial.neighbor_gids :
                    get_country_name(spatial.neighbor_gids[i]) # focal_country}
        IN  /\ spatial.cross_border_count = Cardinality(foreign)
            /\ (foreign = {}) => spatial.cross_border_count = 0

C19_Witness ==
    /\ spatial.fn = "get_interpretation"
    /\ spatial.neighbor_gids # <<>>
    /\ spatial.cross_border_count = 2
    /\ \E i \in DOMAIN spatial.neighbor_gids :
           get_country_name(spatial.neighbor_gids[i]) = None

(***************************************************************************)
(* TrendEstimator: the history part of DataExtractor.extract_template_data *)
(* and GridBLUFDataExtractor._get_historical_context                       *)
(*                                                                         *)
(* historical_data holds one unit's fatality counts, one per month, oldest *)
(* first.  For a grid these are the ged_sb values of its rows sorted by    *)
(* month_id.  For a country they are the totals of the last months of the  *)
(* record (up to 2025-08); the months before them have no row.  Averages   *)
(* and slopes are exact fractions num/den with den > 0; np.polyfit is      *)
(* taken to return the exact least-squares slope.                          *)
(***************************************************************************)

\* Largest number of months a unit has rows for.
MaxSeries == 12

\* Months from 2020-01 to 2025-08, the range _get_historical_monthly_data
\* walks through.
HistoryMonths == 68

Counts == {0, 22}
Series == UNION {[1..n -> Counts] : n \in 0..MaxSeries}
ExampleSeries == <<0, 0, 0, 12, 24, 36>>

\* Slopes given to _get_trend_description: 0 and the halves around 5 and -5.
Slopes ==
    {[num |-> n, den |-> 2] : n \in ((0 - 11)..(0 - 9)) \cup {0} \cup (9..11)}

Zero == [num |-> 0, den |-> 1]

mean(values) == [num |-> Sum(values), den |-> Len(values)]

\* np.polyfit(range(len(y)), y, 1)[0]
polyfit_slope(y) ==
    LET n == Len(y)
        x == [i \in 1..n |-> i - 1]
        Sx == Sum(x)
        Sxx == Sum([i \in 1..n |-> x[i] * x[i]])
        Sy == Sum(y)
        Sxy == Sum([i \in 1..n |-> x[i] * y[i]])
    IN  [num |-> n * Sxy - Sx * Sy, den |-> n * Sxx - Sx * Sx]

\* data_extractor.py:125-148: no row at all gives [], otherwise one value per
\* month of the range, 0 for a month without row.
_get_historical_monthly_data(country_historical) ==
    IF country_historical = <<>> THEN <<>>
    ELSE LET before == HistoryMonths - Len(country_historical)
         IN  [m \in 1..HistoryMonths |->
                 IF m > before THEN country_historical[m - before] ELSE 0]

\* data_extractor.py:150-157.  The returned text also quotes the slope.
_get_trend_description(trend_slope) ==
    IF Abs(trend_slope.num) > 5 * trend_slope.den
    THEN IF trend_slope.num > 0 THEN "increasing" ELSE "decreasing"
    ELSE "relatively stable"

\* data_extractor.py:62-72 and the history fields of the returned dict.
extract_template_trend(country_historical) ==
    LET historical_points == _get_historical_monthly_data(country_historical)
        historical_avg == IF historical_points # <<>>
                          THEN mean(historical_points) ELSE Zero
        trend_slope == IF Len(historical_points) >= 3
                       THEN polyfit_slope(historical_points) ELSE Zero
    IN  [fn |-> "extract_template_data",
         historical_points |-> historical_points,
         historical_avg |-> historical_avg,
         trend_slope |-> trend_slope,
         trend_desc |-> _get_trend_description(trend_slope)]

\* Variant of trend_label with the threshold itself counted as stable.
trend_label_inclusive(trend_slope) ==
    IF Abs(trend_slope.num) <= trend_slope.den THEN "stable"
    ELSE IF trend_slope.num > 0 THEN "increasing"
    ELSE "decreasing"

\* grid_bluf_data_extractor.py:134-139
trend_label(trend_slope) ==
    IF Abs(trend_slope.num) < trend_slope.den THEN "stable"
    ELSE IF trend_slope.num > 0 THEN "increasing"
    ELSE "decreasing"

\* grid_bluf_data_extractor.py:143-150
level_label(recent_avg) ==
    IF recent_avg.num > 100 * recent_avg.den THEN "high"
    ELSE IF recent_avg.num > 10 * recent_avg.den THEN "moderate"
    ELSE IF recent_avg.num > 0 THEN "low"
    ELSE "minimal"

\* grid_bluf_data_extractor.py:113-152.  trend_slope is the local variable
\* of the source; the outcome has the field only where the source assigns it.
_get_historical_context(values) ==
    IF values = <<>>
    THEN [fn |-> "_get_historical_context", values |-> values,
          avg |-> Zero, desc |-> "no historical data"]
    ELSE IF Len(values) < 6
    THEN [fn |-> "_get_historical_context", values |-> values,
          avg |-> mean(values), desc |-> "limited data"]
    ELSE LET first == IF Len(values) > 12 THEN Len(values) - 11 ELSE 1
             recent_values == SubSeq(values, first, Len(values))
             recent_avg == mean(recent_values)
             level == level_label(recent_avg)
         IN  IF Len(values) >= 12
             THEN LET trend_slope == polyfit_slope(recent_values)
                      trend_ == trend_label(trend_slope)
                  IN  [fn |-> "_get_historical_context", values |-> values,
                       avg |-> mean(values), recent_avg |-> recent_avg,
                       trend_slope |-> trend_slope,
                       level |-> level, trend |-> trend_,
                       desc |-> <<level, "and", trend_>>]
             ELSE [fn |-> "_get_historical_context", values |-> values,
                   avg |-> mean(values), recent_avg |-> recent_avg,
                   level |-> level, trend |-> "stable",
                   desc |-> <<level, "and", "stable">>]

ExtractTemplateTrend ==
    /\ trend' = extract_template_trend(historical_data)
    /\ UNCHANGED <<historical_data, classifyVars, extractVars, rankVars,
                 spatialVars, sharedVars, bulkVars>>

GetHistoricalContext ==
    /\ trend' = _get_historical_context(historical_data)
    /\ UNCHANGED <<historical_data, classifyVars, extractVars, rankVars,
                 spatialVars, sharedVars, bulkVars>>

GetTrendDescription ==
    /\ \E trend_slope \in Slopes :
           trend' = [fn |-> "_get_trend_description",
                     trend_slope |-> trend_slope,
                     ret |-> _get_trend_description(trend_slope)]
    /\ UNCHANGED <<historical_data, classifyVars, extractVars, rankVars,
                 spatialVars, sharedVars, bulkVars>>

InitTrend ==
    /\ historical_data \in Series \cup {ExampleSeries}
    /\ trend = Idle
    /\ classified = Idle
    /\ month_data = <<>>
    /\ covariate_data = <<>>
    /\ extracted = Idle
    /\ forecast_data = <<>>
    /\ country_map = <<>>
    /\ ranked = Idle
    /\ IdleSpatial /\ IdleShared /\ IdleBulk

NextTrend ==
    \/ ExtractTemplateTrend
    \/ GetHistoricalContext
    \/ GetTrendDescription

SpecTrend == InitTrend /\ [][NextTrend]_vars

\* The texts by which a result says that its series is too short for a trend.
InsufficientMarkers ==
    {"insufficient for trend", "limited data", "no historical data"}

\* The last up to 12 values of a grid's series.
Recent(values) ==
    SubSeq(values, IF Len(values) > 12 THEN Len(values) - 11 ELSE 1,
           Len(values))

\* C13: the trend slope is the least-squares slope of the fatality counts
\* against their sequential index and is computed exactly when the series has
\* at least 3 points: with fewer than 3 points the slope is 0 and the result
\* carries an explicit 'insufficient' marker; every series of 3 or more
\* points gets its slope, so [0,0,0,12,24,36] has a positive slope and an
\* increasing, not a stable, trend.
C13_SlopeIffThreePoints ==
    /\ (trend.fn = "extract_template_data") =>
           IF Len(trend.historical_points) >= 3
           THEN trend.trend_slope = polyfit_slope(trend.historical_points)
           ELSE /\ trend.trend_slope = Zero
                /\ trend.trend_desc \in InsufficientMarkers
    /\ (trend.fn = "_get_historical_context") =>
           IF Len(trend.values) >= 3
           THEN /\ trend.desc \notin InsufficientMarkers
                /\ "trend_slope" \in DOMAIN trend
                /\ trend.trend_slope \in {polyfit_slope(trend.values),
                                          polyfit_slope(Recent(trend.values))}
                /\ (trend.trend_slope.num >= trend.trend_slope.den)
                       => trend.trend = "increasing"
           ELSE trend.desc \in InsufficientMarkers

\* C14: for a computed slope s the grid trend label is 'stable' iff |s| < 1,
\* otherwise 'increasing' when s > 0 and 'decreasing' when s < 0 (|s| = 1 is
\* not stable); the country-month trend description is increasing or
\* decreasing iff |s| > 5, by the sign of s, and stable otherwise (|s| = 5 is
\* stable).  Each context uses its own threshold.
C14_TrendThresholds ==
    /\ (trend.fn = "_get_historical_context" /\ Len(trend.values) >= 12) =>
           LET s == trend.trend_slope
           IN  /\ (trend.trend = "stable") <=> (Abs(s.num) < s.den)
               /\ (trend.trend = "increasing") <=> (s.num >= s.den)
               /\ (trend.trend = "decreasing") <=> (0 - s.num >= s.den)
    /\ (trend.fn \in {"_get_trend_description", "extract_template_data"}) =>
           LET s == trend.trend_slope
               d == IF trend.fn = "extract_template_data"
                    THEN trend.trend_desc ELSE trend.ret
           IN  /\ (d = "increasing") <=> (s.num > 5 * s.den)
               /\ (d = "decreasing") <=> (0 - s.num > 5 * s.den)
               /\ (d = "relatively stable") <=> (Abs(s.num) <= 5 * s.den)

\* A grid whose slope over the last 12 months is exactly 1.
C14_Witness ==
    /\ trend.fn = "_get_historical_context"
    /\ Len(trend.values) >= 12
    /\ trend.trend_slope.num = trend.trend_slope.den
    /\ trend.trend = "increasing"

(***************************************************************************)
(* Units without a forecast row                                            *)
(***************************************************************************)

\* C15: when the queried unit has no forecast row for the requested month,
\* building its enriched record (extract_template_data for a country,
\* extract_bluf_data for a grid) returns an ordinary result that carries an
\* explicit 'no data' sentinel, and does not raise.
C15_NoForecastRowIsSentinel ==
    /\ (extracted.fn = "extract_template_data"
            /\ \A i \in DOMAIN month_data :
                   month_data[i].isoab # extracted.country_code)
        => extracted.raised = "none"
    /\ (ranked.fn = "extract_bluf_data"
            /\ \A i \in DOMAIN forecast_data :
                   \/ forecast_data[i].priogrid_gid # ranked.priogrid_gid
                   \/ forecast_data[i].month_id # ranked.target_month_id)
        => ranked.raised = "none"

(***************************************************************************)
(* Shared reference tables under concurrent calls                          *)
(*                                                                         *)
(* heap maps an object to its content.  The objects of owner 0 are held by *)
(* DataProvider: its forecast and historical tables, as load_data leaves   *)
(* them, and the regional_countries memo once it is computed.  The objects *)
(* of owner t are the DataFrames thread t has created in the call it is    *)
(* in.  The grid forecast, the country table and the shapefile are the     *)
(* variables forecast_data, country_map and gdf.  A row of a DataFrame is  *)
(* a function from column names to values.  A thread is idle, with the     *)
(* result of its last call, or at a step of DataProvider.                  *)
(* get_cohort_countries or get_risk_intensity_category; the other          *)
(* operations read their table in one step.                                *)
(***************************************************************************)

\* Number of threads that call the operations.
MaxThreads == 2

Threads == 1..MaxThreads

TargetMonth == [year |-> 2025, month |-> 9]
NextMonth == [year |-> 2025, month |-> 10]

\* self.forecast_data after load_data.  Country 3 is outside the regions.
LoadedForecast ==
    <<[isoab |-> 1, dates |-> TargetMonth, outcome_p |-> 5, predicted |-> 500],
      [isoab |-> 2, dates |-> TargetMonth, outcome_p |-> 300, predicted |-> 900],
      [isoab |-> 2, dates |-> NextMonth, outcome_p |-> 300, predicted |-> 1300],
      [isoab |-> 3, dates |-> TargetMonth, outcome_p |-> 300, predicted |-> 900]>>

\* self.historical_data after load_data, which adds total_fatalities.
LoadedHistorical ==
    <<[isoab |-> 1, in_africa |-> 1, in_middle_east |-> 0,
       ged_sb |-> 4, total_fatalities |-> 4],
      [isoab |-> 2, in_africa |-> 0, in_middle_east |-> 1,
       ged_sb |-> 0, total_fatalities |-> 0],
      [isoab |-> 3, in_africa |-> 0, in_middle_east |-> 0,
       ged_sb |-> 7, total_fatalities |-> 7]>>

ForecastObject == <<0, "forecast_data">>
HistoricalObject == <<0, "historical_data">>
RegionalObject == <<0, "regional_countries">>

\* The heap with object key holding value, and without the objects in freed.
Store(h, key, value) ==
    [k \in DOMAIN h \cup {key} |-> IF k = key THEN value ELSE h[k]]
Free(h, freed) == [k \in DOMAIN h \ freed |-> h[k]]

\* data_provider.py:19-38: the memo, computed from historical_data when it
\* is not there yet.
_load_regional_countries(h) ==
    IF RegionalObject \in DOMAIN h THEN h
    ELSE LET Regional(row) == row.in_africa = 1 \/ row.in_middle_east = 1
         IN  Store(h, RegionalObject,
                   Range(Column(SelectSeq(h[HistoricalObject], Regional),
                                "isoab")))

\* data_provider.py:102-105: the regional rows, in a new DataFrame.
get_forecast_data(h) ==
    LET InRegion(row) == row.isoab \in h[RegionalObject]
    IN  SelectSeq(h[ForecastObject], InRegion)

\* Variant of month_data_object: the DataFrame the provider itself holds.
month_data_shared(t) == ForecastObject

\* data_provider.py:142-145: forecast_data[...].copy() is a DataFrame of its
\* own, here the object "month_data" of the calling thread.
month_data_object(t) == <<t, "month_data">>

\* data_provider.py:193
\* month_data['risk_category'] = month_data['outcome_p'].apply(...)
with_risk_category(table) ==
    [i \in DOMAIN table |->
        [c \in DOMAIN table[i] \cup {"risk_category"} |->
            IF c = "risk_category" THEN categorize_probability(table[i].outcome_p)
            ELSE table[i][c]]]

\* data_provider.py:194
\* month_data['intensity_category'] = month_data['predicted'].apply(...)
with_intensity_category(table) ==
    [i \in DOMAIN table |->
        [c \in DOMAIN table[i] \cup {"intensity_category"} |->
            IF c = "intensity_category"
            THEN categorize_intensity(table[i].predicted)
            ELSE table[i][c]]]

\* A thread that has returned ret from fn, or raised.
Done(fn, ret) == [pc |-> "idle", fn |-> fn, raised |-> "none", ret |-> ret]
Raised(fn, error) == [pc |-> "idle", fn |-> fn, raised |-> error]

\* The category pairs get_cohort_countries is asked for.
Pairs ==
    {<<categorize_probability(LoadedForecast[i].outcome_p),
       categorize_intensity(LoadedForecast[i].predicted)>>
        : i \in DOMAIN LoadedForecast}


\* The thread's own DataFrames.
LocalForecast(t) == <<t, "forecast_data">>
LocalMonth(t) == <<t, "month_data">>

Returns(t, outcome) == threads' = [threads EXCEPT ![t] = outcome]

\* data_provider.py:149-157 called by thread t.
ThreadCategorizeProbability(t) ==
    /\ threads[t].pc = "idle"
    /\ \E prob \in OutcomePs :
           Returns(t, Done("categorize_probability", categorize_probability(prob)))
    /\ UNCHANGED <<heap, classifyVars, extractVars, rankVars, spatialVars,
                 trendVars, bulkVars>>

\* data_provider.py:159-171 called by thread t.
ThreadCategorizeIntensity(t) ==
    /\ threads[t].pc = "idle"
    /\ \E predicted \in Predicteds :
           Returns(t, Done("categorize_intensity", categorize_intensity(predicted)))
    /\ UNCHANGED <<heap, classifyVars, extractVars, rankVars, spatialVars,
                 trendVars, bulkVars>>

\* grid_bluf_data_extractor.py:202-235 called by thread t: the function
\* filters and copies forecast_data and reads the rows.
ThreadGetCountryRank(t) ==
    /\ threads[t].pc = "idle"
    /\ \E priogrid_gid \in Gids, target_month_id \in Months,
          country_name \in Countries :
           Returns(t, Done("_get_country_rank",
                           _get_country_rank(priogrid_gid, target_month_id,
                                             country_name)))
    /\ UNCHANGED <<heap, classifyVars, extractVars, rankVars, spatialVars,
                 trendVars, bulkVars>>

\* grid_spatial_module.py:20-30 called by thread t.
ThreadGetNeighbors(t) ==
    /\ threads[t].pc = "idle"
    /\ \E priogrid_gid \in CallGids :
           Returns(t, Done("_get_neighbors", _get_neighbors(priogrid_gid)))
    /\ UNCHANGED <<heap, classifyVars, extractVars, rankVars, spatialVars,
                 trendVars, bulkVars>>

\* data_provider.py:187-188 with 139-140 and 102-105: get_cohort_countries
\* enters get_monthly_forecast_distribution, which gets the regional rows.
BeginGetCohortCountries(t) ==
    /\ threads[t].pc = "idle"
    /\ \E pair \in Pairs :
           threads' = [threads EXCEPT ![t] =
                          [pc |-> "month_filter", fn |-> "get_cohort_countries",
                           args |-> pair]]
    /\ LET h == _load_regional_countries(heap)
       IN  heap' = Store(h, LocalForecast(t), get_forecast_data(h))
    /\ UNCHANGED <<classifyVars, extractVars, rankVars, spatialVars, trendVars, bulkVars>>

\* data_provider.py:173-175 with 40-43, 139-140 and 102-105:
\* get_risk_intensity_category validates the country and enters
\* get_monthly_forecast_distribution.
BeginGetRiskIntensityCategory(t) ==
    /\ threads[t].pc = "idle"
    /\ \E country_code \in Range(Column(LoadedHistorical, "isoab")) :
           LET h == _load_regional_countries(heap)
           IN  IF country_code \notin h[RegionalObject]
               THEN /\ heap' = h
                    /\ Returns(t, Raised("get_risk_intensity_category",
                                         "ValueError"))
               ELSE /\ heap' = Store(h, LocalForecast(t), get_forecast_data(h))
                    /\ threads' = [threads EXCEPT ![t] =
                           [pc |-> "month_filter",
                            fn |-> "get_risk_intensity_category",
                            args |-> country_code]]
    /\ UNCHANGED <<classifyVars, extractVars, rankVars, spatialVars, trendVars, bulkVars>>

\* data_provider.py:142-147: the rows of the month, in a DataFrame of its
\* own, returned to the caller; the regional DataFrame is dropped.
GetMonthlyForecastDistribution(t) ==
    /\ threads[t].pc = "month_filter"
    /\ LET InMonth(row) == row.dates = TargetMonth
           month_data_ == SelectSeq(heap[LocalForecast(t)], InMonth)
       IN  heap' = Free(Store(heap, LocalMonth(t), month_data_),
                        {LocalForecast(t)})
    /\ threads' = [threads EXCEPT ![t] =
           [pc |-> IF threads[t].fn = "get_cohort_countries"
                   THEN "risk_category" ELSE "target_country",
            fn |-> threads[t].fn, args |-> threads[t].args,
            month_data |-> month_data_object(t)]]
    /\ UNCHANGED <<classifyVars, extractVars, rankVars, spatialVars, trendVars, bulkVars>>

\* data_provider.py:190-193: return [] for an empty month, otherwise assign
\* the column risk_category of month_data.
AssignRiskCategory(t) ==
    /\ threads[t].pc = "risk_category"
    /\ LET month_data_ == threads[t].month_data
       IN  IF heap[month_data_] = <<>>
           THEN /\ heap' = Free(heap, {LocalMonth(t)})
                /\ Returns(t, Done("get_cohort_countries", <<>>))
           ELSE /\ heap' = Store(heap, month_data_,
                                 with_risk_category(heap[month_data_]))
                /\ threads' = [threads EXCEPT ![t].pc = "intensity_category"]
    /\ UNCHANGED <<classifyVars, extractVars, rankVars, spatialVars, trendVars, bulkVars>>

\* data_provider.py:194: assign the column intensity_category of month_data.
AssignIntensityCategory(t) ==
    /\ threads[t].pc = "intensity_category"
    /\ LET month_data_ == threads[t].month_data
       IN  heap' = Store(heap, month_data_,
                         with_intensity_category(heap[month_data_]))
    /\ threads' = [threads EXCEPT ![t].pc = "cohort_data"]
    /\ UNCHANGED <<classifyVars, extractVars, rankVars, spatialVars, trendVars, bulkVars>>

\* data_provider.py:196-201: the isoab of the rows with both categories.
ReturnCohortCountries(t) ==
    /\ threads[t].pc = "cohort_data"
    /\ LET month_data_ == heap[threads[t].month_data]
           InCohort(row) == /\ row.risk_category = threads[t].args[1]
                            /\ row.intensity_category = threads[t].args[2]
       IN  Returns(t, Done("get_cohort_countries",
                           Column(SelectSeq(month_data_, InCohort), "isoab")))
    /\ heap' = Free(heap, {LocalMonth(t)})
    /\ UNCHANGED <<classifyVars, extractVars, rankVars, spatialVars, trendVars, bulkVars>>

\* data_provider.py:176-185: the categories of the country's row, or
\* "Unknown" twice.
ReturnRiskIntensityCategory(t) ==
    /\ threads[t].pc = "target_country"
    /\ LET month_data_ == heap[threads[t].month_data]
           Mine(row) == row.isoab = threads[t].args
           target_country == SelectSeq(month_data_, Mine)
       IN  Returns(t, Done("get_risk_intensity_category",
               IF target_country = <<>> THEN <<"Unknown", "Unknown">>
               ELSE <<categorize_probability(target_country[1].outcome_p),
                      categorize_intensity(target_country[1].predicted)>>))
    /\ heap' = Free(heap, {LocalMonth(t)})
    /\ UNCHANGED <<classifyVars, extractVars, rankVars, spatialVars, trendVars, bulkVars>>

InitShared ==
    /\ heap = [k \in {ForecastObject, HistoricalObject} |->
                  IF k = ForecastObject THEN LoadedForecast
                  ELSE LoadedHistorical]
    /\ threads = [t \in Threads |->
                     [pc |-> "idle", fn |-> "none", raised |-> "none"]]
    /\ forecast_data = ExampleForecast
    /\ country_map = ExampleCountryMap
    /\ gdf = Mesh
    /\ ranked = Idle
    /\ spatial = Idle
    /\ classified = Idle
    /\ month_data = <<>>
    /\ covariate_data = <<>>
    /\ extracted = Idle
    /\ IdleTrend /\ IdleBulk

NextShared ==
    \E t \in Threads :
        \/ ThreadCategorizeProbability(t)
        \/ ThreadCategorizeIntensity(t)
        \/ ThreadGetCountryRank(t)
        \/ ThreadGetNeighbors(t)
        \/ BeginGetCohortCountries(t)
        \/ BeginGetRiskIntensityCategory(t)
        \/ GetMonthlyForecastDistribution(t)
        \/ AssignRiskCategory(t)
        \/ AssignIntensityCategory(t)
        \/ ReturnCohortCountries(t)
        \/ ReturnRiskIntensityCategory(t)

SpecShared == InitShared /\ [][NextShared]_vars

\* C20: no core operation (categorize_probability, categorize_intensity,
\* get_risk_intensity_category, get_cohort_countries, _get_country_rank,
\* _get_neighbors) changes the shared reference tables: after any sequence of
\* such calls, from one thread or interleaved from several, every row and
\* column of the forecast, historical and polygon tables held by the
\* providers is the same as right after loading.
C20_SharedTablesUnchanged ==
    /\ heap[ForecastObject] = LoadedForecast
    /\ heap[HistoricalObject] = LoadedHistorical
    /\ forecast_data = ExampleForecast
    /\ country_map = ExampleCountryMap
    /\ gdf = Mesh

\* One thread has assigned both columns of its month_data while another is
\* about to assign its own.
C20_Witness ==
    \E t, u \in Threads :
        /\ t # u
        /\ threads[t].pc = "cohort_data"
        /\ \A i \in DOMAIN heap[LocalMonth(t)] :
               "intensity_category" \in DOMAIN heap[LocalMonth(t)][i]
        /\ threads[u].pc = "risk_category"

(***************************************************************************)
(* The other classifiers of the repository                                 *)
(***************************************************************************)

\* The numeric range a 'range' text of _get_global_category declares, in
\* hundredths: lo exclusive, hi inclusive; "0 fatalities" is the value 0.
DeclaredRange(range) ==
    CASE range = "0 fatalities" -> [lo |-> 0 - 1, hi |-> 0]
      [] range = "1-10 fatalities" -> [lo |-> 0, hi |-> 1000]
      [] range = "11-100 fatalities" -> [lo |-> 1000, hi |-> 10000]
      [] range = "101-1000 fatalities" -> [lo |-> 10000, hi |-> 100000]

\* C21: for every forecast fatality value x >= 0 the category returned by
\* _get_global_category declares a numeric range that contains x: 0 gets
\* '0 fatalities', (0,10] gets '1-10 fatalities', (10,100] gets '11-100
\* fatalities', and every value above 100, also above 1000, lies inside the
\* range of the category it receives.
C21_GlobalCategoryContainsValue ==
    (classified.fn = "_get_global_category" /\ classified.arg >= 0) =>
        LET x == classified.arg
            r == classified.ret
        IN  /\ (x = 0) => r = "0 fatalities"
            /\ (0 < x /\ x <= 1000) => r = "1-10 fatalities"
            /\ (1000 < x /\ x <= 10000) => r = "11-100 fatalities"
            /\ DeclaredRange(r).lo < x /\ x <= DeclaredRange(r).hi

\* C23: every risk classifier assigns the same label to the same
\* probability: for all p in [0,1] categorize_prob_single,
\* DataProvider.categorize_probability and _categorize_risk return the same
\* label.
C23_RiskClassifiersAgree ==
    (classified.fn \in {"categorize_prob_single", "categorize_probability",
                        "_categorize_risk"}
        /\ 0 <= classified.arg /\ classified.arg <= 1000) =>
        /\ classified.ret = categorize_prob_single(classified.arg)
        /\ classified.ret = categorize_probability(classified.arg)
        /\ classified.ret = _categorize_risk(classified.arg)

\* The table without the first row of the country in the month.
WithoutCountryRow(df, month_idx, iso3) ==
    LET first == CHOOSE i \in DOMAIN df :
                     /\ df[i].outcome_n = month_idx /\ df[i].isoab = iso3
                     /\ \A j \in 1..(i - 1) :
                            ~(df[j].outcome_n = month_idx /\ df[j].isoab = iso3)
    IN  [i \in 1..(Len(df) - 1) |-> IF i < first THEN df[i] ELSE df[i + 1]]

\* C24: in the dashboard, for every probability of the selected country
\* (0.01, 0.5 and 0.99 included) the pie category highlighted for the country
\* is the category in which pie_counts_for_month counted it: the country's
\* row is binned to the highlighted label, and without the row the count of
\* that label is one less.
C24_HighlightedIsCounted ==
    (classified.fn = "update_country_figures" /\ classified.found) =>
        /\ cut(classified.arg, PIE_BINS, PIE_LABELS) = classified.ret
        /\ pie_counts_for_month(
               WithoutCountryRow(classified.df, classified.month_idx,
                                 classified.iso3),
               classified.month_idx)[classified.ret]
             = classified.pie_counts[classified.ret] - 1

(***************************************************************************)
(* GridBLUFBulkGenerator.generate_all_blufs                                *)
(*                                                                         *)
(* The main thread submits one future per test case to a pool of worker    *)
(* threads and collects the futures as they complete.  A worker runs       *)
(* process_single_grid: the constructors and look-ups before the try       *)
(* block, the try block, the counter increment under self.lock, the        *)
(* return.  What the extraction, the language model call and the file      *)
(* write do is left open: each either succeeds or raises.                  *)
(***************************************************************************)

\* Number of test cases of a run.
MaxTasks == 3

\* max_workers of the ThreadPoolExecutor.
MaxWorkers == 2

\* Collected entries between two intermediate saves (50 in the source, line
\* 131; the model saves more often so that a run of MaxTasks cases saves).
SaveEvery == 2

Tasks == 1..MaxTasks

\* The futures in the stages "running", "returning".
InWorker(futures) ==
    {t \in DOMAIN futures : futures[t].pc \in {"running", "returning"}}

CountSuccess(results, success) ==
    Cardinality({i \in DOMAIN results : results[i].success = success})

\* generate_grid_blufs.py:104-108  executor.submit for every test case.
InitBulk ==
    /\ bulk = [fn |-> "generate_all_blufs", pc |-> "as_completed",
               successful |-> 0, failed |-> 0,
               futures |-> [t \in Tasks |-> [pc |-> "queued"]],
               results |-> <<>>, entries_since_save |-> 0, saves |-> <<>>]
    /\ classified = Idle
    /\ month_data = <<>>
    /\ covariate_data = <<>>
    /\ extracted = Idle
    /\ forecast_data = <<>>
    /\ country_map = <<>>
    /\ ranked = Idle
    /\ IdleSpatial /\ IdleTrend /\ IdleShared

\* A free worker of the pool takes a queued future and enters
\* process_single_grid.
StartTask(t) ==
    /\ bulk.futures[t].pc = "queued"
    /\ Cardinality(InWorker(bulk.futures)) < MaxWorkers
    /\ bulk' = [bulk EXCEPT !.futures[t] = [pc |-> "running"]]
    /\ UNCHANGED <<classifyVars, extractVars, rankVars, spatialVars, trendVars,
                 sharedVars>>

\* generate_grid_blufs.py:43-47: a constructor or a look-up before the try
\* block raises (GridBLUFGenerator._load_config raises FileNotFoundError);
\* the exception ends the future.
RaiseBeforeTry(t) ==
    /\ bulk.futures[t].pc = "running"
    /\ bulk' = [bulk EXCEPT !.futures[t] = [pc |-> "done", raised |-> TRUE]]
    /\ UNCHANGED <<classifyVars, extractVars, rankVars, spatialVars, trendVars,
                 sharedVars>>

\* generate_grid_blufs.py:49-56: the try block runs through and the worker
\* adds 1 to self.successful while it holds the lock.
CountSuccessful(t) ==
    /\ bulk.futures[t].pc = "running"
    /\ bulk' = [bulk EXCEPT !.successful = @ + 1,
                            !.futures[t] = [pc |-> "returning",
                                            success |-> TRUE]]
    /\ UNCHANGED <<classifyVars, extractVars, rankVars, spatialVars, trendVars,
                 sharedVars>>

\* generate_grid_blufs.py:72-74: the try block raises and the worker adds 1
\* to self.failed while it holds the lock.
CountFailed(t) ==
    /\ bulk.futures[t].pc = "running"
    /\ bulk' = [bulk EXCEPT !.failed = @ + 1,
                            !.futures[t] = [pc |-> "returning",
                                            success |-> FALSE]]
    /\ UNCHANGED <<classifyVars, extractVars, rankVars, spatialVars, trendVars,
                 sharedVars>>

\* generate_grid_blufs.py:58-70, 76-83: the worker returns its dict and the
\* future is done.
ReturnResult(t) ==
    /\ bulk.futures[t].pc = "returning"
    /\ bulk' = [bulk EXCEPT !.futures[t] =
                   [pc |-> "done", raised |-> FALSE,
                    success |-> bulk.futures[t].success]]
    /\ UNCHANGED <<classifyVars, extractVars, rankVars, spatialVars, trendVars,
                 sharedVars>>

\* generate_grid_blufs.py:167-177  save_intermediate_results(results,
\* self.successful, self.failed): what the file and its name hold.
save_intermediate_results(results, successful, failed) ==
    [results |-> results, successful |-> successful, failed |-> failed]

\* generate_grid_blufs.py:110-141: one turn of the as_completed loop.  The
\* result of a done future, or a failure entry when future.result() raises,
\* is appended; every SaveEvery entries the results are saved with the
\* counters as they are read at that moment.
CollectResult(t) ==
    /\ bulk.pc = "as_completed"
    /\ bulk.futures[t].pc = "done"
    /\ LET result == [grid |-> t,
                      success |-> IF bulk.futures[t].raised THEN FALSE
                                  ELSE bulk.futures[t].success]
           results == Append(bulk.results, result)
           entries_since_save == bulk.entries_since_save + 1
       IN  bulk' = [bulk EXCEPT
               !.futures[t] = [pc |-> "collected"],
               !.results = results,
               !.entries_since_save =
                   IF entries_since_save >= SaveEvery THEN 0
                   ELSE entries_since_save,
               !.saves =
                   IF entries_since_save >= SaveEvery
                   THEN Append(@, save_intermediate_results(
                                      results, bulk.successful, bulk.failed))
                   ELSE @]
    /\ UNCHANGED <<classifyVars, extractVars, rankVars, spatialVars, trendVars,
                 sharedVars>>

\* generate_grid_blufs.py:143: every future is collected, the pool is shut
\* down and the method returns results.
ReturnResults ==
    /\ bulk.pc = "as_completed"
    /\ \A t \in Tasks : bulk.futures[t].pc = "collected"
    /\ bulk' = [bulk EXCEPT !.pc = "returned"]
    /\ UNCHANGED <<classifyVars, extractVars, rankVars, spatialVars, trendVars,
                 sharedVars>>

NextBulk ==
    \/ \E t \in Tasks :
           \/ StartTask(t)
           \/ RaiseBeforeTry(t)
           \/ CountSuccessful(t)
           \/ CountFailed(t)
           \/ ReturnResult(t)
           \/ CollectResult(t)
    \/ ReturnResults

SpecBulk == InitBulk /\ [][NextBulk]_vars

\* C22: in generate_all_blufs, with workers running process_single_grid
\* concurrently, at every intermediate save and when the method returns the
\* counters agree with the collected results: successful is the number of
\* entries with success = true and failed the number with success = false,
\* for every interleaving and every way a task can fail.
C22_CountersAgreeWithResults ==
    /\ \A i \in DOMAIN bulk.saves :
           /\ bulk.saves[i].successful
                  = CountSuccess(bulk.saves[i].results, TRUE)
           /\ bulk.saves[i].failed
                  = CountSuccess(bulk.saves[i].results, FALSE)
    /\ (bulk.pc = "returned") =>
           /\ bulk.successful = CountSuccess(bulk.results, TRUE)
           /\ bulk.failed = CountSuccess(bulk.results, FALSE)

(***************************************************************************)
(* Ranking of grids with equal forecast values                             *)
(***************************************************************************)

\* The focal grid's row, and the rows of the partition with its value that
\* come before and after it in the table.
FocalRow == CHOOSE i \in FocalRows : TRUE
Above == {i \in Partition : forecast_data[i].outcome_n > FocalValue}
Below == {i \in Partition : forecast_data[i].outcome_n < FocalValue}
TiedBefore ==
    {i \in Partition : forecast_data[i].outcome_n = FocalValue /\ i < FocalRow}
TiedAfter ==
    {i \in Partition : forecast_data[i].outcome_n = FocalValue /\ i > FocalRow}

\* C25 as claimed: for a grid found in its partition, higher is the number
\* of grids of the same country and month with a strictly greater forecast
\* value and lower the number with a strictly smaller one, also when several
\* grids share the focal grid's value.
C25_HigherLowerCountStrict ==
    Found =>
        /\ ranked.ret.higher = Cardinality(Above)
        /\ ranked.ret.lower = Cardinality(Below)

\* C25 as amended: for a grid found in its partition, higher is the number
\* of grids sorted before it, those with a strictly greater value and those
\* with the same value that come earlier in the table, and lower the number
\* sorted after it, those with a strictly smaller value and those with the
\* same value that come later in the table; higher and lower are the strict
\* counts exactly when no other grid shares the focal grid's value.
C25_HigherLowerCountSortedPositions ==
    Found =>
        /\ ranked.ret.higher = Cardinality(Above) + Cardinality(TiedBefore)
        /\ ranked.ret.lower = Cardinality(Below) + Cardinality(TiedAfter)
        /\ (TiedBefore = {}) <=> (ranked.ret.higher = Cardinality(Above))
        /\ (TiedAfter = {}) <=> (ranked.ret.lower = Cardinality(Below))

C25_Witness ==
    /\ Found
    /\ TiedBefore # {}
    /\ Above # {}
    /\ ranked.ret.higher = 2
    /\ ranked.ret.lower = 0

\* C28: grids of the same country and month with equal forecast values are
\* ranked in the order of their rows in the forecast table: of two tied
\* grids the one that comes earlier in the table gets the smaller rank, so
\* the ranking is a function of the table.
C28_TiesInTableOrder ==
    Found =>
        \A i \in Partition :
            LET other == _get_country_rank(forecast_data[i].priogrid_gid,
                                           ranked.target_month_id,
                                           ranked.country_name)
            IN  /\ (i \in TiedBefore) => other.rank < ranked.ret.rank
                /\ (i \in TiedAfter) => other.rank > ranked.ret.rank
                /\ (i = FocalRow) => other = ranked.ret

C28_Witness ==
    /\ Found
    /\ TiedBefore # {}
    /\ TiedAfter # {}
    /\ ranked.ret.rank = 2

(***************************************************************************)
(* The historical table of one grid                                        *)
(*                                                                         *)
(* historical_data holds the rows of one grid in the order of the parquet  *)
(* file: month_id (here 1 for the first month of the horizon) and ged_sb.  *)
(* The file is read as it is; nothing sorts it or fills months in.         *)
(***************************************************************************)

\* Months of the horizon.
MaxMonths == 13

\* Fatality counts of the tables whose months all have the same count.
LevelCounts == {0, 5, 10, 50, 100, 500}

\* The counts of the one month that differs in the other tables.
SpikeCounts == {24}

\* Forecasts of the target month given to GridTemporalModule.
Baselines == {0, 24}

Reverse(s) == [i \in 1..Len(s) |-> s[Len(s) + 1 - i]]
LatestFirst(s) == <<s[Len(s)]>> \o SubSeq(s, 1, Len(s) - 1)

\* The months of a set, oldest first.
Ascending(months) ==
    [i \in 1..Cardinality(months) |->
        CHOOSE m \in months : Cardinality({k \in months : k < m}) = i - 1]

\* Rows for months 1..n, oldest first, without the month gap (0: no gap),
\* with count c in month h and 0 elsewhere.
SpikeRows(n, gap, h, c) ==
    LET months == Ascending((1..n) \ {gap})
    IN  [i \in DOMAIN months |->
            [month_id |-> months[i],
             ged_sb |-> IF months[i] = h THEN c ELSE 0]]

HistoryTables ==
    {<<>>}
    \cup {[m \in 1..n |-> [month_id |-> m, ged_sb |-> c]]
            : n \in 1..MaxMonths, c \in LevelCounts}
    \cup UNION {{SpikeRows(n, gap, h, c), Reverse(SpikeRows(n, gap, h, c)),
                 LatestFirst(SpikeRows(n, gap, h, c))}
                   : n \in 2..MaxMonths, gap \in 0..MaxMonths,
                     h \in 1..MaxMonths, c \in SpikeCounts}

\* grid_bluf_data_extractor.py:121-122  grid_hist.sort_values('month_id'),
\* then the ged_sb column.  A grid has one row per month.
sorted_values(grid_hist) ==
    LET sorted ==
            [i \in DOMAIN grid_hist |->
                CHOOSE r \in Range(grid_hist) :
                    Cardinality({q \in Range(grid_hist) :
                                    q.month_id < r.month_id}) = i - 1]
    IN  Column(sorted, "ged_sb")

\* analyze_zero_forecasts.py:38-62: the history part of _extract_data_fast.
_extract_data_fast(grid_hist) ==
    IF grid_hist = <<>>
    THEN [fn |-> "_extract_data_fast", values |-> <<>>,
          hist_avg |-> Zero, hist_trend |-> "no historical data"]
    ELSE LET values == Column(grid_hist, "ged_sb")
         IN  IF Len(values) >= 12
             THEN LET recent_values ==
                          SubSeq(values, Len(values) - 11, Len(values))
                      recent_avg == mean(recent_values)
                      level == level_label(recent_avg)
                  IN  [fn |-> "_extract_data_fast", values |-> values,
                       hist_avg |-> mean(values), recent_avg |-> recent_avg,
                       level |-> level,
                       hist_trend |-> <<level, "and", "stable">>]
             ELSE [fn |-> "_extract_data_fast", values |-> values,
                   hist_avg |-> mean(values), hist_trend |-> "limited data"]

\* grid_temporal_module.py:15-25  GridTemporalModule._get_historical_data:
\* the dict month_id -> ged_sb, its entries in the order of the rows.
_get_historical_data(grid_historical) ==
    [i \in DOMAIN grid_historical |->
        <<grid_historical[i].month_id, grid_historical[i].ged_sb>>]

\* grid_temporal_module.py:165-198  GridTemporalModule.get_interpretation:
\* the recent average and the comparison of the returned sentence.
temporal_get_interpretation(grid_historical, target_baseline) ==
    LET historical_points == _get_historical_data(grid_historical)
        values == [i \in DOMAIN historical_points |-> historical_points[i][2]]
        recent_values == IF Len(values) >= 12
                         THEN SubSeq(values, Len(values) - 11, Len(values))
                         ELSE values
    IN  IF historical_points = <<>>
        THEN [fn |-> "GridTemporalModule.get_interpretation",
              values |-> values,
              ret |-> "No historical data available for this grid cell."]
        ELSE LET recent_avg == mean(recent_values)
             IN  [fn |-> "GridTemporalModule.get_interpretation",
                  values |-> values, target_baseline |-> target_baseline,
                  recent_avg |-> recent_avg,
                  ret |-> IF 10 * target_baseline * recent_avg.den
                                 > 11 * recent_avg.num
                          THEN "higher than"
                          ELSE IF 10 * target_baseline * recent_avg.den
                                      < 9 * recent_avg.num
                          THEN "lower than"
                          ELSE "consistent with"]

\* GridBLUFDataExtractor._get_historical_context on the table: lines 115-122
\* give the values, lines 124-152 the outcome.
GridHistoricalContext ==
    /\ trend' = _get_historical_context(sorted_values(historical_data))
    /\ UNCHANGED <<historical_data, classifyVars, extractVars, rankVars,
                 spatialVars, sharedVars, bulkVars>>

ExtractDataFast ==
    /\ trend' = _extract_data_fast(historical_data)
    /\ UNCHANGED <<historical_data, classifyVars, extractVars, rankVars,
                 spatialVars, sharedVars, bulkVars>>

TemporalGetInterpretation ==
    /\ \E target_baseline \in Baselines :
           trend' = temporal_get_interpretation(historical_data, target_baseline)
    /\ UNCHANGED <<historical_data, classifyVars, extractVars, rankVars,
                 spatialVars, sharedVars, bulkVars>>

InitHistory ==
    /\ historical_data \in HistoryTables
    /\ trend = Idle
    /\ classified = Idle
    /\ month_data = <<>>
    /\ covariate_data = <<>>
    /\ extracted = Idle
    /\ forecast_data = <<>>
    /\ country_map = <<>>
    /\ ranked = Idle
    /\ IdleSpatial /\ IdleShared /\ IdleBulk

NextHistory ==
    \/ GridHistoricalContext
    \/ ExtractDataFast
    \/ TemporalGetInterpretation

SpecHistory == InitHistory /\ [][NextHistory]_vars


TableMonths == {historical_data[i].month_id : i \in DOMAIN historical_data}

\* The months from the grid's first record to its last.
Horizon ==
    {m \in 1..MaxMonths :
        /\ \E k \in TableMonths : k <= m
        /\ \E k \in TableMonths : k >= m}

\* The 12 months with the largest month_id, or all of them.
LatestMonths ==
    {m \in TableMonths : Cardinality({k \in TableMonths : k > m}) < 12}

\* The mean of the records of LatestMonths.
RecentByMonth ==
    [num |-> Sum([i \in DOMAIN historical_data |->
                     IF historical_data[i].month_id \in LatestMonths
                     THEN historical_data[i].ged_sb ELSE 0]),
     den |-> Cardinality(LatestMonths)]

\* C26: for every non-empty historical series level_label is determined by
\* the mean m of the most recent 12 points, or of all points when there are
\* fewer: 'minimal' when m <= 0, 'low' when 0 < m <= 10, 'moderate' when
\* 10 < m <= 100, 'high' when m > 100; a series of 1 to 11 points gets one of
\* the four labels too.
C26_LevelFromRecentMean ==
    (trend.fn \in {"_get_historical_context", "_extract_data_fast"}
        /\ historical_data # <<>>) =>
        /\ "level" \in DOMAIN trend
        /\ LET m == RecentByMonth
           IN  /\ (trend.level = "minimal") <=> (m.num <= 0)
               /\ (trend.level = "low") <=> (0 < m.num /\ m.num <= 10 * m.den)
               /\ (trend.level = "moderate")
                      <=> (10 * m.den < m.num /\ m.num <= 100 * m.den)
               /\ (trend.level = "high") <=> (m.num > 100 * m.den)

\* C27: for every grid with at least one historical record the series used
\* for the average and the trend has one entry per month of the horizon, a
\* month without record counting as 0, and the average is the sum of the
\* entries divided by that length.
C27_OneEntryPerMonth ==
    (trend.fn = "_get_historical_context" /\ historical_data # <<>>) =>
        /\ Len(trend.values) = Cardinality(Horizon)
        /\ trend.avg = [num |-> Sum(trend.values), den |-> Cardinality(Horizon)]

\* C30: the recent historical average of a grid is the mean of the 12
\* records with the largest month_id (of all records when there are fewer),
\* whatever the order of the rows of the historical table, in
\* GridTemporalModule.get_interpretation, _extract_data_fast and
\* _get_historical_context.
C30_RecentAverageByMonth ==
    (trend.fn \in {"GridTemporalModule.get_interpretation",
                   "_extract_data_fast", "_get_historical_context"}
        /\ "recent_avg" \in DOMAIN trend) =>
        trend.recent_avg = RecentByMonth

(***************************************************************************)
(* Forecast against historical average                                     *)
(*                                                                         *)
(* Forecast and average are whole numbers of fatalities here; the          *)
(* thresholds 0.8, 0.9, 1.1 and 1.2 are applied by cross-multiplication.   *)
(***************************************************************************)

\* Largest forecast compared.
MaxForecast == 20

Forecasts == 0..MaxForecast
Averages == {0, 10}

\* data_extractor.py:159-169  DataExtractor._get_forecast_comparison
_get_forecast_comparison(predicted, historical_avg) ==
    IF historical_avg = 0 THEN "higher than"
    ELSE IF 10 * predicted > 11 * historical_avg THEN "higher than"
    ELSE IF 10 * predicted < 9 * historical_avg THEN "lower than"
    ELSE "consistent with"

\* grid_bluf_data_extractor.py:263-277
\* GridBLUFDataExtractor._compare_forecast_to_historical
_compare_forecast_to_historical(forecast, historical) ==
    IF historical = 0
    THEN IF forecast > 0 THEN "higher than" ELSE "consistent with"
    ELSE IF 10 * forecast > 12 * historical THEN "higher than"
    ELSE IF 10 * forecast < 8 * historical THEN "lower than"
    ELSE "consistent with"

\* monthly_temporal_module.py:249-254: trend_desc of
\* MonthlyTemporalModule.get_interpretation.
monthly_trend_desc(target_forecast, recent_avg) ==
    IF 10 * target_forecast > 11 * recent_avg THEN "higher than"
    ELSE IF 10 * target_forecast < 9 * recent_avg THEN "lower than"
    ELSE "consistent with"

GetForecastComparison ==
    /\ \E predicted \in Forecasts, historical_avg \in Averages :
           trend' = [fn |-> "_get_forecast_comparison",
                     forecast |-> predicted, historical |-> historical_avg,
                     ret |-> _get_forecast_comparison(predicted, historical_avg)]
    /\ UNCHANGED <<historical_data, classifyVars, extractVars, rankVars,
                 spatialVars, sharedVars, bulkVars>>

CompareForecastToHistorical ==
    /\ \E forecast \in Forecasts, historical \in Averages :
           trend' = [fn |-> "_compare_forecast_to_historical",
                     forecast |-> forecast, historical |-> historical,
                     ret |-> _compare_forecast_to_historical(forecast,
                                                             historical)]
    /\ UNCHANGED <<historical_data, classifyVars, extractVars, rankVars,
                 spatialVars, sharedVars, bulkVars>>

MonthlyGetInterpretation ==
    /\ \E target_forecast \in Forecasts, recent_avg \in Averages :
           trend' = [fn |-> "MonthlyTemporalModule.get_interpretation",
                     forecast |-> target_forecast, historical |-> recent_avg,
                     ret |-> monthly_trend_desc(target_forecast, recent_avg)]
    /\ UNCHANGED <<historical_data, classifyVars, extractVars, rankVars,
                 spatialVars, sharedVars, bulkVars>>

InitCompare ==
    /\ trend = Idle
    /\ classified = Idle
    /\ month_data = <<>>
    /\ covariate_data = <<>>
    /\ extracted = Idle
    /\ forecast_data = <<>>
    /\ country_map = <<>>
    /\ ranked = Idle
    /\ IdleSpatial /\ IdleTrend /\ IdleShared /\ IdleBulk

NextCompare ==
    \/ GetForecastComparison
    \/ CompareForecastToHistorical
    \/ MonthlyGetInterpretation

SpecCompare == InitCompare /\ [][NextCompare]_vars

\* C29: a forecast equal to the historical average is always described as
\* 'consistent with' it, also when both are 0, and 'higher than' is reported
\* only when the forecast is strictly greater than the average, in the
\* country comparison and in the grid comparison alike.
C29_EqualIsConsistent ==
    (trend.fn \in {"_get_forecast_comparison",
                   "_compare_forecast_to_historical",
                   "MonthlyTemporalModule.get_interpretation"}) =>
        /\ (trend.forecast = trend.historical) => trend.ret = "consistent with"
        /\ (trend.ret = "higher than") => trend.forecast > trend.historical

====
